---- MODULE Spec2Model ----
(***************************************************************************)
(* Model of the multi-room climate dashboard (src/sys_status.py): the      *)
(* per-room control flags and timers, the scheduled events, the rolling    *)
(* history, the background tick loop and the snapshot handed to the        *)
(* configuration file.                                                     *)
(*                                                                         *)
(* Time: the wall clock `now` counts minutes (the unit of the scheduling   *)
(* dialog); a tick is one pass of _simulation_loop over all rooms.         *)
(*                                                                         *)
(* temp and humidity: a room's temp and humidity fields hold the number of *)
(* climate updates (lines 618-622) the room has received, which is what    *)
(* identifies a sample in the history and in a snapshot.  SpecClimate and   *)
(* SpecEffects compute them as numbers, in thousandths (climate_update);   *)
(* SpecBackground as float64 values near the drift targets.                *)
(*                                                                         *)
(* Specifications:                                                         *)
(*   Spec           whole handlers and whole ticks, one at a time          *)
(*   SpecLong       the same without events, long enough for every timer   *)
(*   SpecTimedHeat  one request for timed heat and the ticks after it      *)
(*   SpecRace       control handlers against the thread, access by access  *)
(*   SpecSnapshot   the saves against the thread, access by access         *)
(*   SpecHandlers   whole handlers, the last one recorded with its room    *)
(*   SpecAcBoost    one AC boost, events, and the ticks after them         *)
(*   SpecClimate    the climate update in numbers                          *)
(*   SpecRoundTrip  Spec followed by a save and the next start             *)
(*   SpecLoad       the start from a configuration file and the first ticks*)
(*   SpecSave       handlers, ticks and saves that may fail                *)
(*   SpecClock      start_simulation, stop_simulation and the threads      *)
(*   SpecEffects    the climate in numbers with events and running timers  *)
(*   SpecBackground the drift of a room that is not viewed, in float64     *)
(*   SpecLoadFair   SpecLoad with a thread that is scheduled               *)
(*   SpecStop       destroy against the thread, the thread being scheduled *)
(*   SpecRooms      the room list: additions and selections, names as text *)
(*   SpecLogin      the login screen (src/auth.py) and the way to the      *)
(*                  dashboard (src/main.py)                                *)
(*   SpecButtons    the control buttons and the handlers behind them       *)
(***************************************************************************)
EXTENDS Integers, Sequences, FiniteSets, TLC

(***************************************************************************)
(* Program constants                                                       *)
(***************************************************************************)
SIMULATION_TICK_INTERVAL_SECONDS == 1
GRAPH_DATA_POINTS == 60
MAX_TIMED_HEAT_MINUTES == 60
MAX_ROOM_NAME_LENGTH == 20
MAX_LOGIN_ATTEMPTS == 2
MIN_PASSWORD_LENGTH == 6
AC_BOOST_SECONDS == 30
SECONDS_PER_MINUTE == 60

(***************************************************************************)
(* Bounds of the model                                                     *)
(***************************************************************************)
MaxNow == 1          \* the wall clock runs from 0 to MaxNow minutes
MaxEvents == 2       \* scheduled events, all rooms together
MaxDuration == 2     \* timed-heat durations 1..MaxDuration minutes
MaxDelay == 1        \* scheduling delays 1..MaxDelay minutes
MaxTicks == 2        \* ticks of a run of whole handlers and whole ticks
MaxClockOps == 3     \* calls of start_simulation and stop_simulation
MaxSpacings == 170   \* float64 values up to MaxSpacings spacings off a drift target
MaxAdded == 2        \* rooms the user adds to the list

Durations == 1..MaxDuration
Delays == 1..MaxDelay

\* The room list of the loaded configuration.
PersistedRooms == <<"Living Room", "Bedroom">>

VARIABLES
    rooms,               \* self.rooms: the ordered room-name list
    current_room,        \* self.current_room: the viewed room
    room_states,         \* self.room_states: room name -> room state
    now,                 \* datetime.now(), in minutes
    simulation_running,  \* self._simulation_running
    sim_thread,          \* the tick thread: its place in _simulation_loop and its locals
    main_thread,         \* the interface thread: the handler in progress and its locals
    start_states         \* room_states when the run recorded in the threads began

vars == <<rooms, current_room, room_states, now,
          simulation_running, sim_thread, main_thread, start_states>>

threads == <<simulation_running, sim_thread, main_thread, start_states>>

(***************************************************************************)
(* Room state                                                              *)
(***************************************************************************)
get_default_room_state ==
    [ temp |-> 0,
      humidity |-> 0,
      heat_on |-> FALSE,
      ac_boost_on |-> FALSE,
      ac_boost_timer |-> 0,
      timed_heat_active |-> FALSE,
      timed_heat_remaining_seconds |-> 0,
      scheduled_events |-> << >>,
      time_data |-> << >>,
      temp_data |-> << >>,
      humidity_data |-> << >>,
      simulation_time_elapsed |-> 0 ]

\* datetime.isoformat / datetime.fromisoformat of a clock value.
isoformat(t) == <<"iso", t>>
fromisoformat(s) == s[2]

\* The append of a list, which has no maximal length.
list_append(dq, x) == Append(dq, x)

\* collections.deque(maxlen=GRAPH_DATA_POINTS).append
deque_append(dq, x) ==
    IF Len(dq) >= GRAPH_DATA_POINTS THEN Append(Tail(dq), x) ELSE Append(dq, x)

(***************************************************************************)
(* Control operations on the viewed room's state                           *)
(***************************************************************************)
\* toggle_heat_on without the check for a running timed heat or AC boost.
toggle_heat_on_unchecked(rs) ==
    IF ~rs.heat_on THEN [rs EXCEPT !.heat_on = TRUE] ELSE rs

\* toggle_heat_on that looks at timed heat only, not at the AC boost.
toggle_heat_on_ignores_ac(rs) ==
    IF rs.timed_heat_active THEN rs
    ELSE IF ~rs.heat_on THEN [rs EXCEPT !.heat_on = TRUE]
    ELSE rs

toggle_heat_on(rs) ==
    IF rs.timed_heat_active \/ rs.ac_boost_on THEN rs
    ELSE IF ~rs.heat_on THEN [rs EXCEPT !.heat_on = TRUE]
    ELSE rs

\* toggle_heat_off that also switches the heat off during timed heat.
toggle_heat_off_during_timed(rs) ==
    IF rs.heat_on THEN [rs EXCEPT !.heat_on = FALSE] ELSE rs

toggle_heat_off(rs) ==
    IF rs.timed_heat_active THEN rs
    ELSE IF rs.heat_on THEN [rs EXCEPT !.heat_on = FALSE]
    ELSE rs

\* activate_ac_boost that looks at timed heat only, not at manual heat.
activate_ac_boost_ignores_heat(rs) ==
    IF rs.timed_heat_active THEN rs
    ELSE IF ~rs.ac_boost_on
         THEN [rs EXCEPT !.ac_boost_on = TRUE, !.ac_boost_timer = AC_BOOST_SECONDS]
    ELSE rs

activate_ac_boost(rs) ==
    IF rs.heat_on \/ rs.timed_heat_active THEN rs
    ELSE IF ~rs.ac_boost_on
         THEN [rs EXCEPT !.ac_boost_on = TRUE, !.ac_boost_timer = AC_BOOST_SECONDS]
    ELSE rs

\* toggle_timed_heat whose cancel branch leaves the remaining seconds in place.
toggle_timed_heat_cancel_keeps_seconds(rs, duration_minutes) ==
    IF rs.timed_heat_active
    THEN [rs EXCEPT !.timed_heat_active = FALSE, !.heat_on = FALSE]
    ELSE IF rs.heat_on \/ rs.ac_boost_on THEN rs
    ELSE IF duration_minutes # 0
         THEN [rs EXCEPT !.timed_heat_active = TRUE,
                         !.timed_heat_remaining_seconds =
                             duration_minutes * SECONDS_PER_MINUTE,
                         !.heat_on = TRUE]
    ELSE rs

\* toggle_timed_heat that starts without looking at manual heat or AC boost.
toggle_timed_heat_no_conflict_check(rs, duration_minutes) ==
    IF rs.timed_heat_active
    THEN [rs EXCEPT !.timed_heat_active = FALSE,
                    !.heat_on = FALSE,
                    !.timed_heat_remaining_seconds = 0]
    ELSE IF duration_minutes # 0
         THEN [rs EXCEPT !.timed_heat_active = TRUE,
                         !.timed_heat_remaining_seconds =
                             duration_minutes * SECONDS_PER_MINUTE,
                         !.heat_on = TRUE]
    ELSE rs

\* toggle_timed_heat whose cancel branch leaves the heat on.
toggle_timed_heat_cancel_keeps_heat(rs, duration_minutes) ==
    IF rs.timed_heat_active
    THEN [rs EXCEPT !.timed_heat_active = FALSE,
                    !.timed_heat_remaining_seconds = 0]
    ELSE IF rs.heat_on \/ rs.ac_boost_on THEN rs
    ELSE IF duration_minutes # 0
         THEN [rs EXCEPT !.timed_heat_active = TRUE,
                         !.timed_heat_remaining_seconds =
                             duration_minutes * SECONDS_PER_MINUTE,
                         !.heat_on = TRUE]
    ELSE rs

\* duration_minutes: the value of the duration dialog, 0 when it was cancelled.
toggle_timed_heat(rs, duration_minutes) ==
    IF rs.timed_heat_active
    THEN [rs EXCEPT !.timed_heat_active = FALSE,
                    !.heat_on = FALSE,
                    !.timed_heat_remaining_seconds = 0]
    ELSE IF rs.heat_on \/ rs.ac_boost_on THEN rs
    ELSE IF duration_minutes # 0
         THEN [rs EXCEPT !.timed_heat_active = TRUE,
                         !.timed_heat_remaining_seconds =
                             duration_minutes * SECONDS_PER_MINUTE,
                         !.heat_on = TRUE]
    ELSE rs

(***************************************************************************)
(* Scheduled events                                                        *)
(***************************************************************************)
\* The event dictionary built by schedule_event_prompt.  executions counts
\* the calls of execute_scheduled_event made for the event.
new_event(t, delay_minutes, duration_minutes) ==
    [ start_time_iso |-> isoformat(t + delay_minutes),
      action |-> "start_timed_heat",
      duration_minutes |-> duration_minutes,
      triggered |-> FALSE,
      executions |-> 0 ]

\* schedule_event that puts the new event in front of the list.
schedule_event_in_front(rs, t, delay_minutes, duration_minutes) ==
    [rs EXCEPT !.scheduled_events =
        <<new_event(t, delay_minutes, duration_minutes)>> \o @]

schedule_event(rs, t, delay_minutes, duration_minutes) ==
    [rs EXCEPT !.scheduled_events =
        Append(@, new_event(t, delay_minutes, duration_minutes))]

\* execute_scheduled_event without the conflict check.
execute_scheduled_event_no_conflict_check(rs, event) ==
    [rs EXCEPT !.timed_heat_active = TRUE,
               !.timed_heat_remaining_seconds =
                   event.duration_minutes * SECONDS_PER_MINUTE,
               !.heat_on = TRUE]

execute_scheduled_event(rs, event) ==
    IF event.action = "start_timed_heat"
    THEN IF rs.heat_on \/ rs.ac_boost_on THEN rs
         ELSE [rs EXCEPT !.timed_heat_active = TRUE,
                         !.timed_heat_remaining_seconds =
                             event.duration_minutes * SECONDS_PER_MINUTE,
                         !.heat_on = TRUE]
    ELSE rs

event_is_due(event, t) ==
    ~event.triggered /\ t >= fromisoformat(event.start_time_iso)

\* process_event that forgets to mark the event as triggered.
process_event_not_marked(rs, i, t) ==
    LET event == rs.scheduled_events[i] IN
    IF event_is_due(event, t)
    THEN LET after == execute_scheduled_event(rs, event) IN
         [after EXCEPT !.scheduled_events[i].executions = @ + 1]
    ELSE rs

\* One iteration of the loop over the events: event i of the room.
process_event(rs, i, t) ==
    LET event == rs.scheduled_events[i] IN
    IF event_is_due(event, t)
    THEN LET after == execute_scheduled_event(rs, event) IN
         [after EXCEPT !.scheduled_events[i].triggered = TRUE,
                       !.scheduled_events[i].executions = @ + 1]
    ELSE rs

\* The loop `for i in range(len(events) - 1, -1, -1)`, from index i down.
RECURSIVE process_scheduled_events(_, _, _)
process_scheduled_events(rs, i, t) ==
    IF i < 1 THEN rs
    ELSE process_scheduled_events(process_event(rs, i, t), i - 1, t)

(***************************************************************************)
(* Timers                                                                  *)
(***************************************************************************)
\* process_timed_heat that lets the timer expire one tick late.
process_timed_heat_late(rs) ==
    IF rs.timed_heat_active
    THEN LET left == rs.timed_heat_remaining_seconds - SIMULATION_TICK_INTERVAL_SECONDS IN
         IF left < 0
         THEN [rs EXCEPT !.timed_heat_active = FALSE,
                         !.heat_on = FALSE,
                         !.timed_heat_remaining_seconds = 0]
         ELSE [rs EXCEPT !.heat_on = TRUE,
                         !.timed_heat_remaining_seconds = left]
    ELSE rs

process_timed_heat(rs) ==
    IF rs.timed_heat_active
    THEN LET left == rs.timed_heat_remaining_seconds - SIMULATION_TICK_INTERVAL_SECONDS IN
         IF left <= 0
         THEN [rs EXCEPT !.timed_heat_active = FALSE,
                         !.heat_on = FALSE,
                         !.timed_heat_remaining_seconds = 0]
         ELSE [rs EXCEPT !.heat_on = TRUE,
                         !.timed_heat_remaining_seconds = left]
    ELSE rs

\* process_ac_boost that leaves manual heat on next to the AC boost.
process_ac_boost_keeps_heat(rs) ==
    IF rs.ac_boost_on
    THEN LET left == rs.ac_boost_timer - SIMULATION_TICK_INTERVAL_SECONDS IN
         IF left <= 0
         THEN [rs EXCEPT !.ac_boost_on = FALSE, !.ac_boost_timer = 0]
         ELSE [rs EXCEPT !.ac_boost_timer = left]
    ELSE rs

process_ac_boost(rs) ==
    IF rs.ac_boost_on
    THEN LET r1 == IF rs.heat_on /\ ~rs.timed_heat_active
                   THEN [rs EXCEPT !.heat_on = FALSE] ELSE rs
             left == r1.ac_boost_timer - SIMULATION_TICK_INTERVAL_SECONDS IN
         IF left <= 0
         THEN [r1 EXCEPT !.ac_boost_on = FALSE, !.ac_boost_timer = 0]
         ELSE [r1 EXCEPT !.ac_boost_timer = left]
    ELSE rs

process_timers(rs) == process_ac_boost(process_timed_heat(rs))

(***************************************************************************)
(* Climate update and history                                              *)
(***************************************************************************)
apply_climate(rs) ==
    [rs EXCEPT !.temp = @ + 1, !.humidity = @ + 1]

\* append_history that records every room, watched or not.
append_history_every_room(rs, viewed) ==
    LET e == rs.simulation_time_elapsed + SIMULATION_TICK_INTERVAL_SECONDS IN
    [rs EXCEPT !.simulation_time_elapsed = e,
               !.time_data = deque_append(@, e),
               !.temp_data = deque_append(@, rs.temp),
               !.humidity_data = deque_append(@, rs.humidity)]

\* append_history that leaves simulation_time_elapsed where it was.
append_history_clock_stopped(rs, viewed) ==
    IF viewed
    THEN [rs EXCEPT !.time_data = deque_append(@, rs.simulation_time_elapsed),
                    !.temp_data = deque_append(@, rs.temp),
                    !.humidity_data = deque_append(@, rs.humidity)]
    ELSE rs

append_history(rs, viewed) ==
    IF viewed
    THEN LET e == rs.simulation_time_elapsed + SIMULATION_TICK_INTERVAL_SECONDS IN
         [rs EXCEPT !.simulation_time_elapsed = e,
                    !.time_data = deque_append(@, e),
                    !.temp_data = deque_append(@, rs.temp),
                    !.humidity_data = deque_append(@, rs.humidity)]
    ELSE rs

\* tick_room with the timers run before the events.
tick_room_timers_first(rs, viewed, t) ==
    append_history(
        apply_climate(
            LET timed == process_timers(rs) IN
            process_scheduled_events(timed, Len(timed.scheduled_events), t)),
        viewed)

\* tick_room that runs the events and the timers of the viewed room only.
tick_room_viewed_only(rs, viewed, t) ==
    append_history(
        apply_climate(
            IF viewed
            THEN process_timers(
                     process_scheduled_events(rs, Len(rs.scheduled_events), t))
            ELSE rs),
        viewed)

\* One room's share of one tick.
tick_room(rs, viewed, t) ==
    append_history(
        apply_climate(
            process_timers(
                process_scheduled_events(rs, Len(rs.scheduled_events), t))),
        viewed)

(***************************************************************************)
(* Handlers of the user interface, each run between two ticks              *)
(***************************************************************************)
RoomNames == {rooms[i] : i \in 1..Len(rooms)}

RECURSIVE SumOf(_, _)
SumOf(f, names) ==
    IF names = {} THEN 0
    ELSE LET r == CHOOSE x \in names : TRUE IN f[r] + SumOf(f, names \ {r})

\* Completed ticks: every tick advances the viewed room's elapsed time by one.
TicksIn(states) ==
    SumOf([r \in DOMAIN states |-> states[r].simulation_time_elapsed], DOMAIN states)

TicksDone == TicksIn(room_states)

EventsScheduled ==
    SumOf([r \in DOMAIN room_states |-> Len(room_states[r].scheduled_events)],
          DOMAIN room_states)

HasViewedRoom == current_room \in DOMAIN room_states

NoModeActive(rs) == ~rs.heat_on /\ ~rs.ac_boost_on /\ ~rs.timed_heat_active

ToggleHeatOn ==
    /\ HasViewedRoom
    /\ room_states' = [room_states EXCEPT ![current_room] = toggle_heat_on(@)]
    /\ UNCHANGED <<rooms, current_room, now, threads>>

ToggleHeatOff ==
    /\ HasViewedRoom
    /\ room_states' = [room_states EXCEPT ![current_room] = toggle_heat_off(@)]
    /\ UNCHANGED <<rooms, current_room, now, threads>>

ActivateAcBoost ==
    /\ HasViewedRoom
    /\ room_states' = [room_states EXCEPT ![current_room] = activate_ac_boost(@)]
    /\ UNCHANGED <<rooms, current_room, now, threads>>

ToggleTimedHeat ==
    /\ HasViewedRoom
    /\ \E d \in Durations \cup {0} :
          room_states' = [room_states EXCEPT ![current_room] = toggle_timed_heat(@, d)]
    /\ UNCHANGED <<rooms, current_room, now, threads>>

ScheduleEventPrompt ==
    /\ HasViewedRoom
    /\ EventsScheduled < MaxEvents
    /\ \E delay \in Delays, d \in Durations :
          /\ now + delay <= MaxNow
          /\ room_states' = [room_states EXCEPT
                                ![current_room] = schedule_event(@, now, delay, d)]
    /\ UNCHANGED <<rooms, current_room, now, threads>>

OnRoomSelected ==
    /\ \E i \in 1..Len(rooms) : current_room' = rooms[i]
    /\ UNCHANGED <<rooms, room_states, now, threads>>

\* The wall clock moves on.
ClockAdvance ==
    /\ now < MaxNow
    /\ now' = now + 1
    /\ UNCHANGED <<rooms, current_room, room_states, threads>>

\* One whole pass of _simulation_loop over all rooms.
simulation_tick(states, viewed_room, t) ==
    [r \in DOMAIN states |-> tick_room(states[r], r = viewed_room, t)]

TickWithin(limit) ==
    /\ simulation_running
    /\ TicksDone < limit
    /\ room_states' = simulation_tick(room_states, current_room, now)
    /\ UNCHANGED <<rooms, current_room, now, threads>>

Tick == TickWithin(MaxTicks)

\* The thread between two ticks, no handler in progress.
\* room: index in the room list of the room being processed; i: index of the
\* event being examined; tmp: the value loaded by an in-place subtraction;
\* ticks: the value of now_time of every pass begun so far.
ThreadIdle ==
    [pc |-> "sleep", room |-> 0, i |-> 0, tmp |-> 0, now_time |-> 0, ticks |-> << >>]

\* op, room, duration_minutes, delay_minutes, now_time: the handler in progress
\* and its locals; saving, doc: the room being copied by _save_state_to_config
\* and serializable_room_states; written: the room states of the document the
\* last save handed to json.dump; ops: the handlers completed so far.
MainIdle ==
    [pc |-> "idle", op |-> "none", room |-> "none", duration_minutes |-> 0,
     delay_minutes |-> 0, now_time |-> 0, saving |-> 0, doc |-> << >>,
     written |-> << >>, ops |-> << >>]

\* The dashboard as on_login_successful leaves it: the configuration loaded,
\* every room in the default state, the simulation started.
InitDashboard ==
    /\ rooms = PersistedRooms
    /\ current_room = rooms[1]
    /\ room_states = [r \in RoomNames |-> get_default_room_state]
    /\ now = 0
    /\ simulation_running = TRUE

Init ==
    /\ InitDashboard
    /\ sim_thread = ThreadIdle
    /\ main_thread = MainIdle
    /\ start_states = room_states

Next ==
    \/ ToggleHeatOn
    \/ ToggleHeatOff
    \/ ActivateAcBoost
    \/ ToggleTimedHeat
    \/ ScheduleEventPrompt
    \/ OnRoomSelected
    \/ ClockAdvance
    \/ Tick

Spec == Init /\ [][Next]_vars

(***************************************************************************)
(* Long runs: enough ticks for every timer to run out                      *)
(***************************************************************************)
LongRunTicks == MaxTicks + MaxDuration * SECONDS_PER_MINUTE + 1

TickLong == TickWithin(LongRunTicks)

\* The user changes the room to watch before the tick number MaxTicks.
SelectRoomEarly ==
    /\ TicksDone < MaxTicks
    /\ OnRoomSelected

NextLong ==
    \/ ToggleHeatOn
    \/ ToggleHeatOff
    \/ ActivateAcBoost
    \/ ToggleTimedHeat
    \/ SelectRoomEarly
    \/ TickLong

SpecLong == Init /\ [][NextLong]_vars

\* One request for timed heat in an idle viewed room, within the first
\* MaxTicks ticks, recorded with the states it found; no other handler runs.
TimedHeatRequested ==
    /\ HasViewedRoom
    /\ main_thread = MainIdle
    /\ TicksDone <= MaxTicks
    /\ NoModeActive(room_states[current_room])
    /\ \E d \in Durations :
          /\ room_states' = [room_states EXCEPT ![current_room] = toggle_timed_heat(@, d)]
          /\ main_thread' = [MainIdle EXCEPT !.op = "toggle_timed_heat",
                                             !.room = current_room,
                                             !.duration_minutes = d]
    /\ start_states' = room_states
    /\ UNCHANGED <<rooms, current_room, now, simulation_running, sim_thread>>

NextTimedHeat ==
    \/ TimedHeatRequested
    \/ SelectRoomEarly
    \/ TickLong

SpecTimedHeat == Init /\ [][NextTimedHeat]_vars

\* One AC boost asked for in an idle viewed room, within the first MaxTicks
\* ticks, recorded with the states it found; no other control is clicked.
AcBoostRequestedOnce ==
    /\ HasViewedRoom
    /\ main_thread = MainIdle
    /\ TicksDone <= MaxTicks
    /\ NoModeActive(room_states[current_room])
    /\ room_states' = [room_states EXCEPT ![current_room] = activate_ac_boost(@)]
    /\ main_thread' = [MainIdle EXCEPT !.op = "activate_ac_boost",
                                       !.room = current_room]
    /\ start_states' = room_states
    /\ UNCHANGED <<rooms, current_room, now, simulation_running, sim_thread>>

AcBoostRunTicks == MaxTicks + AC_BOOST_SECONDS + 1

TickAcBoost == TickWithin(AcBoostRunTicks)

NextAcBoost ==
    \/ AcBoostRequestedOnce
    \/ ScheduleEventPrompt
    \/ ClockAdvance
    \/ SelectRoomEarly
    \/ TickAcBoost

SpecAcBoost == Init /\ [][NextAcBoost]_vars

(***************************************************************************)
(* The climate in numbers: temperatures and humidities in thousandths of a *)
(* degree and of a percent, products rounded down to a thousandth          *)
(***************************************************************************)
INITIAL_TEMP_CELSIUS == 20000
INITIAL_HUMIDITY_PERCENT == 50000
AMBIENT_TEMP_TARGET == 22000
AMBIENT_HUMIDITY_TARGET == 45000
HEAT_RATE == 200
COOL_RATE_AC == 300
AC_HUMIDITY_REDUCTION_RATE == 200
AMBIENT_DRIFT_RATE_TEMP == 50
BACKGROUND_AMBIENT_DRIFT_RATE_TEMP == 20
AMBIENT_DRIFT_RATE_HUMIDITY == 100
BACKGROUND_AMBIENT_DRIFT_RATE_HUMIDITY == 40
DRIFT_FACTOR == 150
TEMP_NOISE == 30
HUMIDITY_NOISE == 80
TEMP_MIN == 5000
TEMP_MAX == 35000
HUMIDITY_MIN == 10000
HUMIDITY_MAX == 90000

abs(x) == IF x < 0 THEN -x ELSE x

\* rate * distance * 0.15 with rate and 0.15 in thousandths.
drift(rate, distance) == (rate * distance * DRIFT_FACTOR) \div (1000 * 1000)

\* The update without the second assignment of lines 620 and 622.
clamp_missing(lo, hi, x) == x

\* max(lo, min(hi, x))
clamp(lo, hi, x) ==
    LET m == IF x < hi THEN x ELSE hi IN
    IF m > lo THEN m ELSE lo

\* climate_update that applies the cooling whenever ac_boost_on is set, also
\* next to the heating.
climate_update_heat_and_cool(rs, viewed, noise_temp, noise_humidity) ==
    LET direct_temp == (IF rs.heat_on THEN HEAT_RATE ELSE 0)
                           - (IF rs.ac_boost_on THEN COOL_RATE_AC ELSE 0)
        direct_humidity == IF rs.ac_boost_on THEN -AC_HUMIDITY_REDUCTION_RATE
                           ELSE 0
        drift_rate_temp == IF ~viewed THEN BACKGROUND_AMBIENT_DRIFT_RATE_TEMP
                           ELSE AMBIENT_DRIFT_RATE_TEMP
        drift_temp ==
            IF rs.temp < AMBIENT_TEMP_TARGET
            THEN drift(drift_rate_temp, abs(AMBIENT_TEMP_TARGET - rs.temp))
            ELSE -drift(drift_rate_temp, abs(rs.temp - AMBIENT_TEMP_TARGET))
        drift_rate_humidity == IF ~viewed THEN BACKGROUND_AMBIENT_DRIFT_RATE_HUMIDITY
                               ELSE AMBIENT_DRIFT_RATE_HUMIDITY
        drift_humidity ==
            IF rs.humidity < AMBIENT_HUMIDITY_TARGET
            THEN drift(drift_rate_humidity,
                       abs(AMBIENT_HUMIDITY_TARGET - rs.humidity))
            ELSE -drift(drift_rate_humidity,
                        abs(rs.humidity - AMBIENT_HUMIDITY_TARGET))
        temp_change == direct_temp + drift_temp
                           + (IF viewed THEN noise_temp ELSE 0)
        humidity_change == direct_humidity + drift_humidity
                               + (IF viewed THEN noise_humidity ELSE 0) IN
    [rs EXCEPT !.temp = clamp(TEMP_MIN, TEMP_MAX, rs.temp + temp_change),
               !.humidity = clamp(HUMIDITY_MIN, HUMIDITY_MAX,
                                  rs.humidity + humidity_change)]

\* The climate part of one room's tick; noise_temp and noise_humidity are the
\* values of random.uniform, used for the viewed room only.
climate_update(rs, viewed, noise_temp, noise_humidity) ==
    LET direct_temp == IF rs.heat_on THEN HEAT_RATE
                       ELSE IF rs.ac_boost_on THEN -COOL_RATE_AC
                       ELSE 0
        direct_humidity == IF ~rs.heat_on /\ rs.ac_boost_on
                           THEN -AC_HUMIDITY_REDUCTION_RATE
                           ELSE 0
        drift_rate_temp == IF ~viewed THEN BACKGROUND_AMBIENT_DRIFT_RATE_TEMP
                           ELSE AMBIENT_DRIFT_RATE_TEMP
        current_temp == rs.temp
        drift_temp ==
            IF current_temp < AMBIENT_TEMP_TARGET
            THEN drift(drift_rate_temp, abs(AMBIENT_TEMP_TARGET - current_temp))
            ELSE IF current_temp > AMBIENT_TEMP_TARGET
            THEN -drift(drift_rate_temp, abs(current_temp - AMBIENT_TEMP_TARGET))
            ELSE 0
        drift_rate_humidity == IF ~viewed THEN BACKGROUND_AMBIENT_DRIFT_RATE_HUMIDITY
                               ELSE AMBIENT_DRIFT_RATE_HUMIDITY
        current_humidity == rs.humidity
        drift_humidity ==
            IF current_humidity < AMBIENT_HUMIDITY_TARGET
            THEN drift(drift_rate_humidity,
                       abs(AMBIENT_HUMIDITY_TARGET - current_humidity))
            ELSE IF current_humidity > AMBIENT_HUMIDITY_TARGET
            THEN -drift(drift_rate_humidity,
                        abs(current_humidity - AMBIENT_HUMIDITY_TARGET))
            ELSE 0
        temp_change == direct_temp + drift_temp
                           + (IF viewed THEN noise_temp ELSE 0)
        humidity_change == direct_humidity + drift_humidity
                               + (IF viewed THEN noise_humidity ELSE 0) IN
    [rs EXCEPT !.temp = clamp(TEMP_MIN, TEMP_MAX, current_temp + temp_change),
               !.humidity = clamp(HUMIDITY_MIN, HUMIDITY_MAX,
                                  current_humidity + humidity_change)]

\* tick_room_climate with the climate updated before the events and the timers.
tick_room_climate_first(rs, viewed, t, noise_temp, noise_humidity) ==
    append_history(
        LET updated == climate_update(rs, viewed, noise_temp, noise_humidity) IN
        process_timers(
            process_scheduled_events(updated, Len(updated.scheduled_events), t)),
        viewed)

\* One room's share of one tick, the climate in numbers.
tick_room_climate(rs, viewed, t, noise_temp, noise_humidity) ==
    append_history(
        climate_update(
            process_timers(
                process_scheduled_events(rs, Len(rs.scheduled_events), t)),
            viewed, noise_temp, noise_humidity),
        viewed)

\* Values random.uniform can return: both ends and the middle.
TempNoise == {-TEMP_NOISE, 0, TEMP_NOISE}

HumidityNoise == {-HUMIDITY_NOISE, 0, HUMIDITY_NOISE}

\* Temperatures and humidities a room starts with: the defaults, and values
\* read from the configuration file, which __init__ takes as they are.
StartTemps ==
    {INITIAL_TEMP_CELSIUS, TEMP_MIN + 100, TEMP_MAX - 100, TEMP_MIN - 2000,
     TEMP_MAX + 2000}

StartHumidities ==
    {INITIAL_HUMIDITY_PERCENT, HUMIDITY_MIN + 100, HUMIDITY_MIN - 2000,
     HUMIDITY_MAX + 2000}

InitClimate ==
    /\ rooms = PersistedRooms
    /\ current_room = rooms[1]
    /\ \E t0 \in StartTemps, h0 \in StartHumidities :
          room_states = [r \in RoomNames |->
                            [get_default_room_state EXCEPT !.temp = t0,
                                                           !.humidity = h0]]
    /\ now = 0
    /\ simulation_running = TRUE
    /\ sim_thread = ThreadIdle
    /\ main_thread = MainIdle
    /\ start_states = room_states

ClimateTick ==
    /\ simulation_running
    /\ TicksDone < MaxTicks
    /\ \E noise_temp \in TempNoise, noise_humidity \in HumidityNoise :
          room_states' =
              [r \in DOMAIN room_states |->
                  tick_room_climate(room_states[r], r = current_room, now,
                                    noise_temp, noise_humidity)]
    /\ UNCHANGED <<rooms, current_room, now, threads>>

\* Control states a room may be in when the dashboard starts: saved by an
\* earlier run in the middle of a mode, or, for two modes at once, as a file
\* may hold them.
ModesAtStart ==
    {[heat_on |-> FALSE, ac_boost_on |-> FALSE, ac_boost_timer |-> 0,
      timed_heat_active |-> FALSE, timed_heat_remaining_seconds |-> 0],
     [heat_on |-> TRUE, ac_boost_on |-> FALSE, ac_boost_timer |-> 0,
      timed_heat_active |-> FALSE, timed_heat_remaining_seconds |-> 0],
     [heat_on |-> FALSE, ac_boost_on |-> TRUE, ac_boost_timer |-> 1,
      timed_heat_active |-> FALSE, timed_heat_remaining_seconds |-> 0],
     [heat_on |-> FALSE, ac_boost_on |-> TRUE, ac_boost_timer |-> 2,
      timed_heat_active |-> FALSE, timed_heat_remaining_seconds |-> 0],
     [heat_on |-> TRUE, ac_boost_on |-> FALSE, ac_boost_timer |-> 0,
      timed_heat_active |-> TRUE, timed_heat_remaining_seconds |-> 1],
     [heat_on |-> TRUE, ac_boost_on |-> FALSE, ac_boost_timer |-> 0,
      timed_heat_active |-> TRUE, timed_heat_remaining_seconds |-> 2],
     [heat_on |-> TRUE, ac_boost_on |-> TRUE, ac_boost_timer |-> 2,
      timed_heat_active |-> TRUE, timed_heat_remaining_seconds |-> 2],
     [heat_on |-> TRUE, ac_boost_on |-> TRUE, ac_boost_timer |-> 2,
      timed_heat_active |-> FALSE, timed_heat_remaining_seconds |-> 0],
     [heat_on |-> FALSE, ac_boost_on |-> FALSE, ac_boost_timer |-> 0,
      timed_heat_active |-> TRUE, timed_heat_remaining_seconds |-> 2]}

with_mode(rs, mode) ==
    [rs EXCEPT !.heat_on = mode.heat_on,
               !.ac_boost_on = mode.ac_boost_on,
               !.ac_boost_timer = mode.ac_boost_timer,
               !.timed_heat_active = mode.timed_heat_active,
               !.timed_heat_remaining_seconds = mode.timed_heat_remaining_seconds]

\* Both rooms at the initial temperature and humidity, each in a mode, either
\* of them the viewed one.
InitEffects ==
    /\ rooms = PersistedRooms
    /\ current_room \in RoomNames
    /\ \E modes \in [RoomNames -> ModesAtStart] :
          room_states = [r \in RoomNames |->
              with_mode([get_default_room_state EXCEPT
                            !.temp = INITIAL_TEMP_CELSIUS,
                            !.humidity = INITIAL_HUMIDITY_PERCENT],
                        modes[r])]
    /\ now = 0
    /\ simulation_running = TRUE
    /\ sim_thread = ThreadIdle
    /\ main_thread = MainIdle
    /\ start_states = room_states

\* A room selection before the first tick, so that either room may hold
\* events.
SelectRoomBeforeTicks ==
    /\ TicksDone = 0
    /\ OnRoomSelected

NextEffects ==
    \/ ScheduleEventPrompt
    \/ ClockAdvance
    \/ SelectRoomBeforeTicks
    \/ ClimateTick

SpecEffects == InitEffects /\ [][NextEffects]_vars

NextClimate ==
    \/ ToggleHeatOn
    \/ ToggleHeatOff
    \/ ActivateAcBoost
    \/ OnRoomSelected
    \/ ClimateTick

SpecClimate == InitClimate /\ [][NextClimate]_vars

(***************************************************************************)
(* Handlers recorded: the handler that ran last, with the states it found  *)
(***************************************************************************)
\* A click on a control of the viewed room, the handler run whole.
Requested(name, d, result) ==
    /\ HasViewedRoom
    /\ room_states' = [room_states EXCEPT ![current_room] = result]
    /\ main_thread' = [MainIdle EXCEPT !.op = name,
                                       !.room = current_room,
                                       !.duration_minutes = d]
    /\ start_states' = room_states
    /\ UNCHANGED <<rooms, current_room, now, simulation_running, sim_thread>>

HeatOnRequested ==
    Requested("toggle_heat_on", 0, toggle_heat_on(room_states[current_room]))

HeatOffRequested ==
    Requested("toggle_heat_off", 0, toggle_heat_off(room_states[current_room]))

AcBoostRequested ==
    Requested("activate_ac_boost", 0, activate_ac_boost(room_states[current_room]))

TimedHeatToggled ==
    \E d \in Durations \cup {0} :
        Requested("toggle_timed_heat", d, toggle_timed_heat(room_states[current_room], d))

\* A tick or a change of room after a handler: nothing is recorded any more.
TickAfter ==
    /\ simulation_running
    /\ TicksDone < MaxTicks
    /\ room_states' = simulation_tick(room_states, current_room, now)
    /\ main_thread' = MainIdle
    /\ start_states' = room_states'
    /\ UNCHANGED <<rooms, current_room, now, simulation_running, sim_thread>>

RoomSelectedAfter ==
    /\ \E i \in 1..Len(rooms) : current_room' = rooms[i]
    /\ main_thread' = MainIdle
    /\ start_states' = room_states
    /\ UNCHANGED <<rooms, room_states, now, simulation_running, sim_thread>>

NextHandlers ==
    \/ HeatOnRequested
    \/ HeatOffRequested
    \/ AcBoostRequested
    \/ TimedHeatToggled
    \/ TickAfter
    \/ RoomSelectedAfter

SpecHandlers == Init /\ [][NextHandlers]_vars

(***************************************************************************)
(* The tick thread, one access to the shared state per step                *)
(* (_simulation_loop takes no lock, and neither does any handler)          *)
(***************************************************************************)
MaxOps == 2          \* handlers the user starts while the thread runs

ThreadRoom == rooms[sim_thread.room]
ThreadRoomState == room_states[ThreadRoom]

ThreadGoto(p) == sim_thread' = [sim_thread EXCEPT !.pc = p]
ThreadWrite(field, value) ==
    room_states' = [room_states EXCEPT ![ThreadRoom][field] = value]

ThreadReads(p) ==
    /\ sim_thread.pc = p
    /\ UNCHANGED <<rooms, current_room, room_states, now,
                   simulation_running, main_thread, start_states>>

ThreadWrites(p) ==
    /\ sim_thread.pc = p
    /\ UNCHANGED <<rooms, current_room, now,
                   simulation_running, main_thread, start_states>>

\* The thread or a handler has begun to run step by step.
Started ==
    \/ sim_thread.ticks # << >>
    \/ main_thread.ops # << >>
    \/ main_thread.pc # "idle"

RecordStart == start_states' = IF Started THEN start_states ELSE room_states

\* `while self._simulation_running` finds the flag cleared.
LoopExit ==
    /\ ThreadReads("sleep")
    /\ ~simulation_running
    /\ ThreadGoto("ended")

\* A loop that begins a pass without testing the flag.
LoopEnterWithoutTest ==
    /\ sim_thread.pc = "sleep"
    /\ Len(sim_thread.ticks) < MaxTicks
    /\ sim_thread' = [sim_thread EXCEPT !.pc = "events_len",
                                        !.room = 1,
                                        !.now_time = now,
                                        !.ticks = Append(@, now)]
    /\ RecordStart
    /\ UNCHANGED <<rooms, current_room, room_states, now,
                   simulation_running, main_thread>>

\* `while self._simulation_running` finds the flag set: a pass begins.
LoopEnter ==
    /\ sim_thread.pc = "sleep"
    /\ simulation_running
    /\ Len(sim_thread.ticks) < MaxTicks
    /\ sim_thread' = [sim_thread EXCEPT !.pc = "events_len",
                                        !.room = 1,
                                        !.now_time = now,
                                        !.ticks = Append(@, now)]
    /\ RecordStart
    /\ UNCHANGED <<rooms, current_room, room_states, now,
                   simulation_running, main_thread>>

\* range(len(scheduled_events) - 1, -1, -1) is computed once.
EventsLen ==
    /\ ThreadReads("events_len")
    /\ LET n == Len(ThreadRoomState.scheduled_events) IN
       sim_thread' = [sim_thread EXCEPT
                         !.i = n,
                         !.pc = IF n > 0 THEN "event_check" ELSE "timed_read"]

AfterEvent(th) ==
    [th EXCEPT !.i = @ - 1,
               !.pc = IF th.i > 1 THEN "event_check" ELSE "timed_read"]

\* The test of event i; a due event enters execute_scheduled_event.
EventCheck ==
    /\ ThreadWrites("event_check")
    /\ LET event == ThreadRoomState.scheduled_events[sim_thread.i] IN
       IF event_is_due(event, sim_thread.now_time)
       THEN /\ room_states' = [room_states EXCEPT
                 ![ThreadRoom].scheduled_events[sim_thread.i].executions = @ + 1]
            /\ ThreadGoto("exec_read_heat")
       ELSE /\ sim_thread' = AfterEvent(sim_thread)
            /\ UNCHANGED room_states

ExecReadHeat ==
    /\ ThreadReads("exec_read_heat")
    /\ ThreadGoto(IF ThreadRoomState.heat_on THEN "event_mark" ELSE "exec_read_ac")

ExecReadAc ==
    /\ ThreadReads("exec_read_ac")
    /\ ThreadGoto(IF ThreadRoomState.ac_boost_on THEN "event_mark" ELSE "exec_active")

ExecWriteActive ==
    /\ ThreadWrites("exec_active")
    /\ ThreadWrite("timed_heat_active", TRUE)
    /\ ThreadGoto("exec_seconds")

ExecWriteSeconds ==
    /\ ThreadWrites("exec_seconds")
    /\ ThreadWrite("timed_heat_remaining_seconds",
           ThreadRoomState.scheduled_events[sim_thread.i].duration_minutes
               * SECONDS_PER_MINUTE)
    /\ ThreadGoto("exec_heat")

ExecWriteHeat ==
    /\ ThreadWrites("exec_heat")
    /\ ThreadWrite("heat_on", TRUE)
    /\ ThreadGoto("event_mark")

\* event['triggered'] = True
EventMark ==
    /\ ThreadWrites("event_mark")
    /\ room_states' = [room_states EXCEPT
          ![ThreadRoom].scheduled_events[sim_thread.i].triggered = TRUE]
    /\ sim_thread' = AfterEvent(sim_thread)

TimedRead ==
    /\ ThreadReads("timed_read")
    /\ ThreadGoto(IF ThreadRoomState.timed_heat_active THEN "timed_heat_on" ELSE "ac_read")

TimedHeatOn ==
    /\ ThreadWrites("timed_heat_on")
    /\ ThreadWrite("heat_on", TRUE)
    /\ ThreadGoto("timed_load")

\* timed_heat_remaining_seconds -= 1: the load ...
TimedLoad ==
    /\ ThreadReads("timed_load")
    /\ sim_thread' = [sim_thread EXCEPT
          !.tmp = ThreadRoomState.timed_heat_remaining_seconds,
          !.pc = "timed_store"]

\* ... and the store.
TimedStore ==
    /\ ThreadWrites("timed_store")
    /\ ThreadWrite("timed_heat_remaining_seconds",
                   sim_thread.tmp - SIMULATION_TICK_INTERVAL_SECONDS)
    /\ sim_thread' = [sim_thread EXCEPT !.tmp = 0, !.pc = "timed_test"]

TimedTest ==
    /\ ThreadReads("timed_test")
    /\ ThreadGoto(IF ThreadRoomState.timed_heat_remaining_seconds <= 0
                  THEN "timed_expire_active" ELSE "ac_read")

TimedExpireActive ==
    /\ ThreadWrites("timed_expire_active")
    /\ ThreadWrite("timed_heat_active", FALSE)
    /\ ThreadGoto("timed_expire_heat")

TimedExpireHeat ==
    /\ ThreadWrites("timed_expire_heat")
    /\ ThreadWrite("heat_on", FALSE)
    /\ ThreadGoto("timed_expire_seconds")

TimedExpireSeconds ==
    /\ ThreadWrites("timed_expire_seconds")
    /\ ThreadWrite("timed_heat_remaining_seconds", 0)
    /\ ThreadGoto("ac_read")

AcRead ==
    /\ ThreadReads("ac_read")
    /\ ThreadGoto(IF ThreadRoomState.ac_boost_on THEN "ac_read_heat" ELSE "climate_temp")

AcReadHeat ==
    /\ ThreadReads("ac_read_heat")
    /\ ThreadGoto(IF ThreadRoomState.heat_on THEN "ac_read_timed" ELSE "ac_load")

AcReadTimed ==
    /\ ThreadReads("ac_read_timed")
    /\ ThreadGoto(IF ThreadRoomState.timed_heat_active THEN "ac_load" ELSE "ac_heat_off")

AcHeatOff ==
    /\ ThreadWrites("ac_heat_off")
    /\ ThreadWrite("heat_on", FALSE)
    /\ ThreadGoto("ac_load")

\* ac_boost_timer -= 1: the load ...
AcLoad ==
    /\ ThreadReads("ac_load")
    /\ sim_thread' = [sim_thread EXCEPT !.tmp = ThreadRoomState.ac_boost_timer,
                                        !.pc = "ac_store"]

\* ... and the store.
AcStore ==
    /\ ThreadWrites("ac_store")
    /\ ThreadWrite("ac_boost_timer", sim_thread.tmp - SIMULATION_TICK_INTERVAL_SECONDS)
    /\ sim_thread' = [sim_thread EXCEPT !.tmp = 0, !.pc = "ac_test"]

AcTest ==
    /\ ThreadReads("ac_test")
    /\ ThreadGoto(IF ThreadRoomState.ac_boost_timer <= 0
                  THEN "ac_expire_on" ELSE "climate_temp")

AcExpireOn ==
    /\ ThreadWrites("ac_expire_on")
    /\ ThreadWrite("ac_boost_on", FALSE)
    /\ ThreadGoto("ac_expire_timer")

AcExpireTimer ==
    /\ ThreadWrites("ac_expire_timer")
    /\ ThreadWrite("ac_boost_timer", 0)
    /\ ThreadGoto("climate_temp")

\* room_state['temp'] = ...: only this thread writes temp and humidity.
ClimateTemp ==
    /\ ThreadWrites("climate_temp")
    /\ ThreadWrite("temp", ThreadRoomState.temp + 1)
    /\ ThreadGoto("climate_humidity")

ClimateHumidity ==
    /\ ThreadWrites("climate_humidity")
    /\ ThreadWrite("humidity", ThreadRoomState.humidity + 1)
    /\ ThreadGoto("history_check")

\* The next room of the pass, or the sleep that ends it.
AfterRoom(th) ==
    IF th.room < Len(rooms)
    THEN [th EXCEPT !.room = @ + 1, !.pc = "events_len"]
    ELSE [th EXCEPT !.room = 0, !.i = 0, !.pc = "sleep"]

\* if room_name == self.current_room
HistoryCheck ==
    /\ ThreadReads("history_check")
    /\ sim_thread' = IF ThreadRoom = current_room
                     THEN [sim_thread EXCEPT !.pc = "history_elapsed"]
                     ELSE AfterRoom(sim_thread)

HistoryElapsed ==
    /\ ThreadWrites("history_elapsed")
    /\ ThreadWrite("simulation_time_elapsed",
           ThreadRoomState.simulation_time_elapsed + SIMULATION_TICK_INTERVAL_SECONDS)
    /\ ThreadGoto("history_time")

HistoryTime ==
    /\ ThreadWrites("history_time")
    /\ ThreadWrite("time_data",
           deque_append(ThreadRoomState.time_data, ThreadRoomState.simulation_time_elapsed))
    /\ ThreadGoto("history_temp")

HistoryTemp ==
    /\ ThreadWrites("history_temp")
    /\ ThreadWrite("temp_data",
           deque_append(ThreadRoomState.temp_data, ThreadRoomState.temp))
    /\ ThreadGoto("history_humidity")

HistoryHumidity ==
    /\ ThreadWrites("history_humidity")
    /\ ThreadWrite("humidity_data",
           deque_append(ThreadRoomState.humidity_data, ThreadRoomState.humidity))
    /\ sim_thread' = AfterRoom(sim_thread)

(***************************************************************************)
(* The handlers on the interface thread, one access per step               *)
(***************************************************************************)
MainRoomState == room_states[main_thread.room]

MainGoto(p) == main_thread' = [main_thread EXCEPT !.pc = p]
MainWrite(field, value) ==
    room_states' = [room_states EXCEPT ![main_thread.room][field] = value]

MainReads(p) ==
    /\ main_thread.pc = p
    /\ UNCHANGED <<rooms, current_room, room_states, now,
                   simulation_running, sim_thread, start_states>>

MainWrites(p) ==
    /\ main_thread.pc = p
    /\ UNCHANGED <<rooms, current_room, now,
                   simulation_running, sim_thread, start_states>>

\* The handler returns to the event loop; ops keeps what it was given.
Returned(th) ==
    [th EXCEPT !.pc = IF th.op = "destroy" THEN "closed" ELSE "idle",
               !.op = "none", !.room = "none", !.duration_minutes = 0,
               !.delay_minutes = 0, !.now_time = 0, !.saving = 0, !.doc = << >>,
               !.ops = Append(@, [op |-> th.op, room |-> th.room,
                                  duration_minutes |-> th.duration_minutes,
                                  delay_minutes |-> th.delay_minutes,
                                  now_time |-> th.now_time])]

MainReturn == main_thread' = Returned(main_thread)

\* A click on a control of the viewed room.  duration_minutes = -1: the
\* duration dialog has not been shown.
Clicked(name) ==
    [main_thread EXCEPT !.op = name, !.room = current_room, !.duration_minutes = -1]

Click ==
    /\ main_thread.pc = "idle"
    /\ Len(main_thread.ops) < MaxOps
    /\ HasViewedRoom
    /\ RecordStart

ClickReads ==
    /\ Click
    /\ UNCHANGED <<rooms, current_room, room_states, now, simulation_running, sim_thread>>

\* toggle_heat_on
HeatOnClick ==
    /\ ClickReads
    /\ main_thread' = IF room_states[current_room].timed_heat_active
                      THEN Returned(Clicked("toggle_heat_on"))
                      ELSE [Clicked("toggle_heat_on") EXCEPT !.pc = "heat_on_read_ac"]

HeatOnReadAc ==
    /\ MainReads("heat_on_read_ac")
    /\ IF MainRoomState.ac_boost_on THEN MainReturn ELSE MainGoto("heat_on_read_heat")

HeatOnReadHeat ==
    /\ MainReads("heat_on_read_heat")
    /\ IF MainRoomState.heat_on THEN MainReturn ELSE MainGoto("heat_on_write")

HeatOnWrite ==
    /\ MainWrites("heat_on_write")
    /\ MainWrite("heat_on", TRUE)
    /\ MainReturn

\* toggle_heat_off
HeatOffClick ==
    /\ ClickReads
    /\ main_thread' = IF room_states[current_room].timed_heat_active
                      THEN Returned(Clicked("toggle_heat_off"))
                      ELSE [Clicked("toggle_heat_off") EXCEPT !.pc = "heat_off_read_heat"]

HeatOffReadHeat ==
    /\ MainReads("heat_off_read_heat")
    /\ IF MainRoomState.heat_on THEN MainGoto("heat_off_write") ELSE MainReturn

HeatOffWrite ==
    /\ MainWrites("heat_off_write")
    /\ MainWrite("heat_on", FALSE)
    /\ MainReturn

\* activate_ac_boost
AcBoostClick ==
    /\ ClickReads
    /\ main_thread' = IF room_states[current_room].heat_on
                      THEN Returned(Clicked("activate_ac_boost"))
                      ELSE [Clicked("activate_ac_boost") EXCEPT !.pc = "ac_boost_read_timed"]

AcBoostReadTimed ==
    /\ MainReads("ac_boost_read_timed")
    /\ IF MainRoomState.timed_heat_active THEN MainReturn ELSE MainGoto("ac_boost_read_on")

AcBoostReadOn ==
    /\ MainReads("ac_boost_read_on")
    /\ IF MainRoomState.ac_boost_on THEN MainReturn ELSE MainGoto("ac_boost_write_on")

AcBoostWriteOn ==
    /\ MainWrites("ac_boost_write_on")
    /\ MainWrite("ac_boost_on", TRUE)
    /\ MainGoto("ac_boost_write_timer")

AcBoostWriteTimer ==
    /\ MainWrites("ac_boost_write_timer")
    /\ MainWrite("ac_boost_timer", AC_BOOST_SECONDS)
    /\ MainReturn

\* toggle_timed_heat
TimedHeatClick ==
    /\ ClickReads
    /\ main_thread' = [Clicked("toggle_timed_heat") EXCEPT
                          !.pc = IF room_states[current_room].timed_heat_active
                                 THEN "cancel_active" ELSE "timed_heat_read_heat"]

CancelActive ==
    /\ MainWrites("cancel_active")
    /\ MainWrite("timed_heat_active", FALSE)
    /\ MainGoto("cancel_heat")

CancelHeat ==
    /\ MainWrites("cancel_heat")
    /\ MainWrite("heat_on", FALSE)
    /\ MainGoto("cancel_seconds")

CancelSeconds ==
    /\ MainWrites("cancel_seconds")
    /\ MainWrite("timed_heat_remaining_seconds", 0)
    /\ MainReturn

TimedHeatReadHeat ==
    /\ MainReads("timed_heat_read_heat")
    /\ IF MainRoomState.heat_on THEN MainReturn ELSE MainGoto("timed_heat_read_ac")

\* The last test, and the duration dialog when it passes (0: cancelled).
TimedHeatReadAc ==
    /\ MainReads("timed_heat_read_ac")
    /\ IF MainRoomState.ac_boost_on
       THEN MainReturn
       ELSE \E d \in Durations \cup {0} :
               main_thread' =
                   IF d = 0
                   THEN Returned([main_thread EXCEPT !.duration_minutes = 0])
                   ELSE [main_thread EXCEPT !.duration_minutes = d,
                                            !.pc = "start_active"]

StartActive ==
    /\ MainWrites("start_active")
    /\ MainWrite("timed_heat_active", TRUE)
    /\ MainGoto("start_seconds")

StartSeconds ==
    /\ MainWrites("start_seconds")
    /\ MainWrite("timed_heat_remaining_seconds",
                 main_thread.duration_minutes * SECONDS_PER_MINUTE)
    /\ MainGoto("start_heat")

StartHeat ==
    /\ MainWrites("start_heat")
    /\ MainWrite("heat_on", TRUE)
    /\ MainReturn

\* schedule_event_prompt: the two dialogs, the append, and then the save.
ScheduleClick ==
    /\ Click
    /\ EventsScheduled < MaxEvents
    /\ \E delay \in Delays, d \in Durations :
          /\ now + delay <= MaxNow
          /\ room_states' = [room_states EXCEPT
                                ![current_room] = schedule_event(@, now, delay, d)]
          /\ main_thread' = [Clicked("schedule_event_prompt") EXCEPT
                                !.duration_minutes = d,
                                !.delay_minutes = delay,
                                !.now_time = now,
                                !.saving = 1,
                                !.written = << >>,
                                !.pc = "save_copy"]
    /\ UNCHANGED <<rooms, current_room, now, simulation_running, sim_thread>>

\* destroy: stop_simulation clears the flag and returns, and then the save.
DestroyClick ==
    /\ main_thread.pc = "idle"
    /\ Len(main_thread.ops) < MaxOps
    /\ RecordStart
    /\ simulation_running' = FALSE
    /\ main_thread' = [main_thread EXCEPT !.op = "destroy", !.saving = 1,
                                          !.written = << >>,
                                          !.pc = "save_copy"]
    /\ UNCHANGED <<rooms, current_room, room_states, now, sim_thread>>

\* _save_state_to_config, room by room.
SaveRoom == rooms[main_thread.saving]

\* s_state = state.copy(): the scalars are copied, the deques and the event
\* list are still the room's own.
SaveCopy ==
    /\ MainReads("save_copy")
    /\ main_thread' = [main_thread EXCEPT
          !.doc = @ @@ (SaveRoom :> [room_states[SaveRoom] EXCEPT
                                        !.time_data = << >>,
                                        !.temp_data = << >>,
                                        !.humidity_data = << >>,
                                        !.scheduled_events = << >>]),
          !.pc = "save_time_data"]

SaveTimeData ==
    /\ MainReads("save_time_data")
    /\ main_thread' = [main_thread EXCEPT
          !.doc[SaveRoom].time_data = room_states[SaveRoom].time_data,
          !.pc = "save_temp_data"]

SaveTempData ==
    /\ MainReads("save_temp_data")
    /\ main_thread' = [main_thread EXCEPT
          !.doc[SaveRoom].temp_data = room_states[SaveRoom].temp_data,
          !.pc = "save_humidity_data"]

SaveHumidityData ==
    /\ MainReads("save_humidity_data")
    /\ main_thread' = [main_thread EXCEPT
          !.doc[SaveRoom].humidity_data = room_states[SaveRoom].humidity_data,
          !.pc = "save_events"]

\* [event for event in scheduled_events]: a new list of the same dictionaries.
SaveEvents ==
    /\ MainReads("save_events")
    /\ main_thread' = [main_thread EXCEPT
          !.doc[SaveRoom].scheduled_events = room_states[SaveRoom].scheduled_events,
          !.saving = IF @ < Len(rooms) THEN @ + 1 ELSE 0,
          !.pc = IF main_thread.saving < Len(rooms) THEN "save_copy" ELSE "save_dump"]

\* What json.dump writes for an event: the dictionary as it is now.
serialize_event(event) ==
    [ start_time_iso |-> event.start_time_iso,
      action |-> event.action,
      duration_minutes |-> event.duration_minutes,
      triggered |-> event.triggered ]

\* utils.save_config: json.dump of the copies, whose events are shared.
SaveDump ==
    /\ MainReads("save_dump")
    /\ LET doc == main_thread.doc
           written == [r \in DOMAIN doc |->
               [doc[r] EXCEPT !.scheduled_events =
                   [k \in 1..Len(doc[r].scheduled_events) |->
                       serialize_event(room_states[r].scheduled_events[k])]]] IN
       main_thread' = Returned([main_thread EXCEPT !.written = written])

\* An event is scheduled while the thread is asleep, before anything else.
ScheduleBeforeStart ==
    /\ ~Started
    /\ ScheduleEventPrompt

\* The control handlers against the thread, every access a step.
NextRace ==
    \/ ScheduleBeforeStart
    \/ ClockAdvance
    \/ LoopEnter
    \/ EventsLen \/ EventCheck
    \/ ExecReadHeat \/ ExecReadAc
    \/ ExecWriteActive \/ ExecWriteSeconds \/ ExecWriteHeat
    \/ EventMark
    \/ TimedRead \/ TimedHeatOn \/ TimedLoad \/ TimedStore \/ TimedTest
    \/ TimedExpireActive \/ TimedExpireHeat \/ TimedExpireSeconds
    \/ AcRead \/ AcReadHeat \/ AcReadTimed \/ AcHeatOff
    \/ AcLoad \/ AcStore \/ AcTest \/ AcExpireOn \/ AcExpireTimer
    \/ ClimateTemp \/ ClimateHumidity
    \/ HistoryCheck \/ HistoryElapsed \/ HistoryTime \/ HistoryTemp \/ HistoryHumidity
    \/ HeatOnClick \/ HeatOnReadAc \/ HeatOnReadHeat \/ HeatOnWrite
    \/ HeatOffClick \/ HeatOffReadHeat \/ HeatOffWrite
    \/ AcBoostClick \/ AcBoostReadTimed \/ AcBoostReadOn
    \/ AcBoostWriteOn \/ AcBoostWriteTimer
    \/ TimedHeatClick \/ CancelActive \/ CancelHeat \/ CancelSeconds
    \/ TimedHeatReadHeat \/ TimedHeatReadAc
    \/ StartActive \/ StartSeconds \/ StartHeat

SpecRace == Init /\ [][NextRace]_vars

\* The events and the timers of the thread's room, run without a handler
\* in between.
ThreadControls ==
    /\ ThreadWrites("events_len")
    /\ room_states' = [room_states EXCEPT ![ThreadRoom] =
          process_timers(
              process_scheduled_events(@, Len(@.scheduled_events), sim_thread.now_time))]
    /\ ThreadGoto("climate_temp")

\* The saves of schedule_event_prompt and destroy against the thread's
\* climate and history updates, every access a step.
NextSnapshot ==
    \/ ScheduleBeforeStart
    \/ ClockAdvance
    \/ LoopExit \/ LoopEnter
    \/ ThreadControls
    \/ ClimateTemp \/ ClimateHumidity
    \/ HistoryCheck \/ HistoryElapsed \/ HistoryTime \/ HistoryTemp \/ HistoryHumidity
    \/ ScheduleClick \/ DestroyClick
    \/ SaveCopy \/ SaveTimeData \/ SaveTempData \/ SaveHumidityData
    \/ SaveEvents \/ SaveDump

SpecSnapshot == Init /\ [][NextSnapshot]_vars

\* The steps of the tick thread.
ThreadNext ==
    \/ LoopExit \/ LoopEnter
    \/ ThreadControls
    \/ ClimateTemp \/ ClimateHumidity
    \/ HistoryCheck \/ HistoryElapsed \/ HistoryTime \/ HistoryTemp \/ HistoryHumidity

\* The thread against destroy, which stops the simulation and saves; the
\* thread is a started thread that the system schedules again and again, and
\* time.sleep returns: weak fairness of its steps.
NextStop ==
    \/ LoopExit \/ LoopEnter
    \/ ThreadControls
    \/ ClimateTemp \/ ClimateHumidity
    \/ HistoryCheck \/ HistoryElapsed \/ HistoryTime \/ HistoryTemp \/ HistoryHumidity
    \/ DestroyClick
    \/ SaveCopy \/ SaveTimeData \/ SaveTempData \/ SaveHumidityData
    \/ SaveEvents \/ SaveDump

SpecStop == Init /\ [][NextStop]_vars /\ WF_vars(ThreadNext)

(***************************************************************************)
(* The configuration file: what json.dump writes and json.load reads back  *)
(***************************************************************************)
DEFAULT_ROOMS_FALLBACK == <<"Living Room", "Bedroom", "Kitchen">>

dump_bool(b) == IF b THEN "true" ELSE "false"
load_bool(j) == j = "true"

dump_number(n) == <<"number", n>>
load_number(j) == j[2]

dump_string(str) == <<"string", str>>
load_string(j) == j[2]

dump_numbers(list) == [i \in 1..Len(list) |-> dump_number(list[i])]
load_numbers(j) == [i \in 1..Len(j) |-> load_number(j[i])]

dump_event(event) ==
    LET d == serialize_event(event) IN
    [ start_time_iso |-> dump_string(d.start_time_iso),
      action |-> dump_string(d.action),
      duration_minutes |-> dump_number(d.duration_minutes),
      triggered |-> dump_bool(d.triggered) ]

\* What json.load returns for the value stored under a key.
load_value(key, j) ==
    IF key \in {"heat_on", "ac_boost_on", "timed_heat_active", "triggered"}
    THEN load_bool(j)
    ELSE IF key \in {"time_data", "temp_data", "humidity_data"}
    THEN load_numbers(j)
    ELSE IF key \in {"start_time_iso", "action"}
    THEN load_string(j)
    ELSE load_number(j)

\* The event dictionary json.load returns, with the keys the file has; the
\* new process has made no call of execute_scheduled_event for it.
load_event(j) ==
    [k \in DOMAIN j \cup {"executions"} |->
        IF k = "executions" THEN 0 ELSE load_value(k, j[k])]

\* s_state of _save_state_to_config, as json.dump writes it.
dump_room_state(state) ==
    [ temp |-> dump_number(state.temp),
      humidity |-> dump_number(state.humidity),
      heat_on |-> dump_bool(state.heat_on),
      ac_boost_on |-> dump_bool(state.ac_boost_on),
      ac_boost_timer |-> dump_number(state.ac_boost_timer),
      timed_heat_active |-> dump_bool(state.timed_heat_active),
      timed_heat_remaining_seconds |->
          dump_number(state.timed_heat_remaining_seconds),
      scheduled_events |->
          [k \in 1..Len(state.scheduled_events) |->
              dump_event(state.scheduled_events[k])],
      time_data |-> dump_numbers(state.time_data),
      temp_data |-> dump_numbers(state.temp_data),
      humidity_data |-> dump_numbers(state.humidity_data),
      simulation_time_elapsed |-> dump_number(state.simulation_time_elapsed) ]

\* The dictionary json.load returns for one room of the file, with the keys
\* the file has for the room.
load_json_room_state(j) ==
    [key \in DOMAIN j |->
        IF key = "scheduled_events"
        THEN [k \in 1..Len(j[key]) |-> load_event(j[key][k])]
        ELSE load_value(key, j[key])]

\* The document _save_state_to_config hands to utils.save_config.
save_state_to_config(room_list, states) ==
    [ default_rooms |-> [i \in 1..Len(room_list) |-> dump_string(room_list[i])],
      room_states |-> [r \in DOMAIN states |-> dump_room_state(states[r])] ]

\* A deque that keeps the first entries of a list that is too long.
deque_from_list_keeps_first(list) ==
    IF Len(list) > GRAPH_DATA_POINTS
    THEN SubSeq(list, 1, GRAPH_DATA_POINTS)
    ELSE list

\* collections.deque(list, maxlen=GRAPH_DATA_POINTS): the last entries stay.
deque_from_list(list) ==
    IF Len(list) > GRAPH_DATA_POINTS
    THEN SubSeq(list, Len(list) - GRAPH_DATA_POINTS + 1, Len(list))
    ELSE list

\* {**loaded_state, **default_state}: the defaults win.
merge_defaults_win(default_state, loaded_state) ==
    [k \in DOMAIN default_state \cup DOMAIN loaded_state |->
        IF k \in DOMAIN default_state THEN default_state[k] ELSE loaded_state[k]]

\* {**default_state, **loaded_state}
merge(default_state, loaded_state) ==
    [k \in DOMAIN default_state \cup DOMAIN loaded_state |->
        IF k \in DOMAIN loaded_state THEN loaded_state[k] ELSE default_state[k]]

\* A start that falls back to a single room.
load_rooms_one_room(config) ==
    LET listed == IF "default_rooms" \in DOMAIN config
                  THEN [i \in 1..Len(config.default_rooms) |->
                           load_string(config.default_rooms[i])]
                  ELSE <<"Living Room">> IN
    IF Len(listed) = 0 THEN <<"Living Room">> ELSE listed

\* The rooms __init__ takes from the configuration.
load_rooms(config) ==
    LET listed == IF "default_rooms" \in DOMAIN config
                  THEN [i \in 1..Len(config.default_rooms) |->
                           load_string(config.default_rooms[i])]
                  ELSE DEFAULT_ROOMS_FALLBACK IN
    IF Len(listed) = 0 THEN DEFAULT_ROOMS_FALLBACK ELSE listed

\* A start that gives every room the default state, whatever the file holds.
load_room_state_defaults_only(config, room_name) == get_default_room_state

\* The state __init__ builds for one room of the list.
load_room_state(config, room_name) ==
    LET persisted_room_states ==
            IF "room_states" \in DOMAIN config THEN config.room_states ELSE << >>
        default_state == get_default_room_state
        loaded_state ==
            IF room_name \in DOMAIN persisted_room_states
            THEN load_json_room_state(persisted_room_states[room_name])
            ELSE default_state
        final_state == merge(default_state, loaded_state) IN
    [final_state EXCEPT !.time_data = deque_from_list(@),
                        !.temp_data = deque_from_list(@),
                        !.humidity_data = deque_from_list(@)]

\* logout or destroy: the whole of _save_state_to_config, between two ticks.
SaveState ==
    /\ main_thread = MainIdle
    /\ main_thread' = [MainIdle EXCEPT
                          !.op = "save_state",
                          !.written = save_state_to_config(rooms, room_states)]
    /\ UNCHANGED <<rooms, current_room, room_states, now, simulation_running,
                   sim_thread, start_states>>

\* The next login: __init__ reads the file that was written last.
Restart ==
    /\ main_thread.op = "save_state"
    /\ rooms' = load_rooms(main_thread.written)
    /\ current_room' = rooms'[1]
    /\ room_states' = [r \in {rooms'[i] : i \in 1..Len(rooms')} |->
                          load_room_state(main_thread.written, r)]
    /\ main_thread' = [main_thread EXCEPT !.op = "restart"]
    /\ UNCHANGED <<now, simulation_running, sim_thread, start_states>>

\* The dashboard in use: nothing has been saved for the next login yet.
InUse == main_thread = MainIdle

NextRoundTrip ==
    \/ InUse /\ ToggleHeatOn
    \/ InUse /\ ToggleHeatOff
    \/ InUse /\ ActivateAcBoost
    \/ InUse /\ ToggleTimedHeat
    \/ InUse /\ ScheduleEventPrompt
    \/ InUse /\ OnRoomSelected
    \/ InUse /\ ClockAdvance
    \/ InUse /\ Tick
    \/ SaveState
    \/ Restart

SpecRoundTrip == Init /\ [][NextRoundTrip]_vars

(***************************************************************************)
(* Starting from a configuration file of any content                       *)
(***************************************************************************)
\* History lists a file may hold: 1, 2, ..., n.
FileHistory(n) == dump_numbers([i \in 1..n |-> i])

FileHistoryLengths ==
    {0, 2, GRAPH_DATA_POINTS, GRAPH_DATA_POINTS + 1, GRAPH_DATA_POINTS + 2}

\* An event as schedule_event_prompt writes it, due from the start.
FileEvent == dump_event(new_event(0, 0, 1))

\* An event whose start_time_iso is not an ISO time.
FileEventUnreadableTime ==
    [FileEvent EXCEPT !.start_time_iso = dump_string(<<"text", 0>>)]

\* An event without the key 'action'.
FileEventNoAction ==
    [k \in DOMAIN FileEvent \ {"action"} |-> FileEvent[k]]

FileEventLists ==
    {<< >>, <<FileEvent>>, <<FileEventUnreadableTime>>, <<FileEventNoAction>>,
     <<FileEventNoAction, FileEvent>>}

\* Entries a file may hold for a room: whole states and states with few keys.
FileRoomEntries ==
    {[dump_room_state(get_default_room_state) EXCEPT
          !.time_data = FileHistory(n),
          !.temp_data = FileHistory(n),
          !.humidity_data = FileHistory(n),
          !.simulation_time_elapsed = dump_number(n),
          !.scheduled_events = events] :
        n \in FileHistoryLengths, events \in FileEventLists}
    \cup {[heat_on |-> dump_bool(TRUE)],
          [ac_boost_on |-> dump_bool(TRUE), ac_boost_timer |-> dump_number(2)],
          [temp |-> dump_number(3), time_data |-> FileHistory(GRAPH_DATA_POINTS + 1)]}

FileRoomLists ==
    {<< >>, <<"Living Room", "Bedroom">>, <<"Bedroom", "Study">>}

\* The documents config.json may hold.
FileDocuments ==
    {[default_rooms |-> [i \in 1..Len(l) |-> dump_string(l[i])],
      room_states |-> ("Bedroom" :> e)] :
        l \in FileRoomLists, e \in FileRoomEntries}
    \cup {[default_rooms |-> <<dump_string("Bedroom"), dump_string("Living Room")>>,
           room_states |-> << >>],
          [room_states |-> ("Bedroom" :> [heat_on |-> dump_bool(TRUE)])]}

\* config.json: absent, not valid JSON, or a document.
Files ==
    {[status |-> "missing", document |-> << >>],
     [status |-> "corrupted", document |-> << >>]}
    \cup {[status |-> "ok", document |-> d] : d \in FileDocuments}

\* utils.load_config: an empty dictionary unless the file holds a document.
load_config(file) == IF file.status = "ok" THEN file.document ELSE << >>

\* The login screen is up; the dashboard has not been constructed.
InitLogin ==
    /\ rooms = << >>
    /\ current_room = "none"
    /\ room_states = << >>
    /\ now = 0
    /\ simulation_running = FALSE
    /\ sim_thread = ThreadIdle
    /\ \E file \in Files :
          main_thread = [MainIdle EXCEPT !.op = "login", !.written = file]
    /\ start_states = << >>

\* on_login_successful: __init__ of the dashboard, then start_simulation.
Construct ==
    /\ main_thread.op = "login"
    /\ LET config == load_config(main_thread.written) IN
       /\ rooms' = load_rooms(config)
       /\ current_room' = rooms'[1]
       /\ room_states' = [r \in {rooms'[i] : i \in 1..Len(rooms')} |->
                             load_room_state(config, r)]
    /\ simulation_running' = TRUE
    /\ main_thread' = [main_thread EXCEPT !.op = "dashboard"]
    /\ start_states' = room_states'
    /\ UNCHANGED <<now, sim_thread>>

\* datetime.fromisoformat raises ValueError for the string.
unreadable_time(str) == str[1] # "iso"

\* The loop body raises at this event: the time cannot be read (line 553), or
\* the event is due and has no 'action' (line 710).
event_raises(event, t) ==
    /\ ~event.triggered
    /\ \/ unreadable_time(event.start_time_iso)
       \/ /\ t >= fromisoformat(event.start_time_iso)
          /\ "action" \notin DOMAIN event

room_raises(rs, t) ==
    \E k \in 1..Len(rs.scheduled_events) : event_raises(rs.scheduled_events[k], t)

\* The loop over the events from index i down, left at the event that raises.
RECURSIVE process_scheduled_events_until_raise(_, _, _)
process_scheduled_events_until_raise(rs, i, t) ==
    IF i < 1 THEN rs
    ELSE IF event_raises(rs.scheduled_events[i], t) THEN rs
    ELSE process_scheduled_events_until_raise(process_event(rs, i, t), i - 1, t)

\* The rooms in the order of room_states.items(), which is the order of rooms.
RaisingRooms(t) == {i \in 1..Len(rooms) : room_raises(room_states[rooms[i]], t)}

\* One pass of the loop as it is: no statement of _simulation_loop handles an
\* exception, so the first room that raises ends the pass and the thread.
simulation_pass(t) ==
    LET raising == RaisingRooms(t)
        first == IF raising = {} THEN Len(rooms) + 1
                 ELSE CHOOSE i \in raising : \A j \in raising : i <= j
        index(r) == CHOOSE i \in 1..Len(rooms) : rooms[i] = r IN
    [r \in DOMAIN room_states |->
        IF index(r) < first
        THEN tick_room(room_states[r], r = current_room, t)
        ELSE IF index(r) = first
        THEN process_scheduled_events_until_raise(
                 room_states[r], Len(room_states[r].scheduled_events), t)
        ELSE room_states[r]]

\* One iteration of `while self._simulation_running` in the thread.
TickOrRaise ==
    /\ main_thread.op = "dashboard"
    /\ simulation_running
    /\ sim_thread.pc = "sleep"
    /\ Len(sim_thread.ticks) < MaxTicks
    /\ room_states' = simulation_pass(now)
    /\ sim_thread' = [sim_thread EXCEPT
                         !.pc = IF RaisingRooms(now) = {} THEN "sleep" ELSE "raised",
                         !.ticks = Append(@, now)]
    /\ UNCHANGED <<rooms, current_room, now, simulation_running, main_thread,
                   start_states>>

\* The user picks a room of the dashboard.
SelectRoomOfDashboard ==
    /\ main_thread.op = "dashboard"
    /\ OnRoomSelected

NextLoad ==
    \/ Construct
    \/ SelectRoomOfDashboard
    \/ TickOrRaise

SpecLoad == InitLogin /\ [][NextLoad]_vars

\* SpecLoad with a thread that the system schedules: the dashboard is
\* constructed after the login, and a thread in the loop makes its next pass.
SpecLoadFair == SpecLoad /\ WF_vars(Construct) /\ WF_vars(TickOrRaise)

(***************************************************************************)
(* Saves that may fail                                                     *)
(***************************************************************************)
\* A save that stops the simulation when the file cannot be written.
running_after_save_stops_on_failure(success, running) == running /\ success

\* _simulation_running after _save_state_to_config: both branches of the test
\* of utils.save_config's result only log.
running_after_save(success, running) == running

\* config.json after utils.save_config: the document when json.dump succeeded;
\* otherwise the old file when open() failed, or a file cut short.
files_after_save(success, file, document) ==
    IF success THEN {[status |-> "ok", document |-> document]}
    ELSE {file, [status |-> "corrupted", document |-> << >>]}

\* _save_state_to_config run whole between two ticks; start_states keeps the
\* room states it found.
SaveAttempt ==
    \E success \in BOOLEAN :
        /\ \E file \in files_after_save(success, main_thread.written,
                                        save_state_to_config(rooms, room_states)) :
              main_thread' = [main_thread EXCEPT
                                 !.op = IF success THEN "saved" ELSE "save_failed",
                                 !.written = file]
        /\ simulation_running' = running_after_save(success, simulation_running)
        /\ start_states' = room_states
        /\ UNCHANGED <<rooms, current_room, room_states, now, sim_thread>>

InitSave ==
    /\ InitDashboard
    /\ sim_thread = ThreadIdle
    /\ main_thread = [MainIdle EXCEPT
                         !.written = [status |-> "missing", document |-> << >>]]
    /\ start_states = room_states

NextSave ==
    \/ ToggleHeatOn
    \/ ActivateAcBoost
    \/ OnRoomSelected
    \/ Tick
    \/ SaveAttempt

SpecSave == InitSave /\ [][NextSave]_vars

(***************************************************************************)
(* Starting and stopping the simulation; in SpecClock sim_thread is the    *)
(* list of the threads started so far, each asleep between two passes or   *)
(* ended                                                                   *)
(***************************************************************************)
\* start_simulation without the test of the flag.
start_simulation_always(running, thread_list) ==
    [running |-> TRUE, thread_list |-> Append(thread_list, "sleep")]

\* start_simulation: the flag and the threads after the call.
start_simulation(running, thread_list) ==
    IF ~running
    THEN [running |-> TRUE, thread_list |-> Append(thread_list, "sleep")]
    ELSE [running |-> running, thread_list |-> thread_list]

\* stop_simulation: the flag after the call; the thread is not joined.
stop_simulation(running) == FALSE

ClockOp(name) ==
    /\ Len(main_thread.ops) < MaxClockOps
    /\ main_thread' = [main_thread EXCEPT !.ops = Append(@, name)]

StartSimulation ==
    /\ ClockOp("start_simulation")
    /\ LET after == start_simulation(simulation_running, sim_thread) IN
       /\ simulation_running' = after.running
       /\ sim_thread' = after.thread_list
    /\ UNCHANGED <<rooms, current_room, room_states, now, start_states>>

StopSimulation ==
    /\ ClockOp("stop_simulation")
    /\ simulation_running' = stop_simulation(simulation_running)
    /\ UNCHANGED <<rooms, current_room, room_states, now, sim_thread, start_states>>

\* A thread finds the flag set and makes one pass over the rooms.
ThreadPass ==
    \E i \in 1..Len(sim_thread) :
        /\ sim_thread[i] = "sleep"
        /\ simulation_running
        /\ TicksDone < MaxTicks
        /\ room_states' = simulation_tick(room_states, current_room, now)
        /\ UNCHANGED <<rooms, current_room, now, threads>>

\* A thread finds the flag cleared and ends.
ThreadEnd ==
    \E i \in 1..Len(sim_thread) :
        /\ sim_thread[i] = "sleep"
        /\ ~simulation_running
        /\ sim_thread' = [sim_thread EXCEPT ![i] = "ended"]
        /\ UNCHANGED <<rooms, current_room, room_states, now,
                       simulation_running, main_thread, start_states>>

\* The dashboard as __init__ leaves it: flag cleared, no thread.
InitClock ==
    /\ rooms = PersistedRooms
    /\ current_room = rooms[1]
    /\ room_states = [r \in RoomNames |-> get_default_room_state]
    /\ now = 0
    /\ simulation_running = FALSE
    /\ sim_thread = << >>
    /\ main_thread = MainIdle
    /\ start_states = room_states

NextClock ==
    \/ StartSimulation
    \/ StopSimulation
    \/ ThreadPass
    \/ ThreadEnd
    \/ OnRoomSelected

SpecClock == InitClock /\ [][NextClock]_vars

(***************************************************************************)
(* The background drift in float64                                         *)
(*                                                                         *)
(* temp and humidity are Python floats.  SpecBackground holds a value that *)
(* is close to its drift target as its signed distance from the target,    *)
(* counted in spacings of float64 there: temp = k stands for               *)
(* 22.0 + k * 2^-48 and humidity = k for 45.0 + k * 2^-47.  Rates are in   *)
(* thousandths, as they are for SpecClimate.                               *)
(***************************************************************************)

\* The float64 nearest to x + num/den spacings, for x a whole number of
\* spacings; the sums met within MaxSpacings of the target are never halfway
\* between two floats.
float_add(x, num, den) == (2 * (x * den + num) + den) \div (2 * den)

\* max(lo, min(hi, x)) for x = target + k spacings, less than a thousandth off
\* a target that lies between the bounds.
clamp_near(lo, hi, target, k) ==
    CASE lo < target /\ target < hi -> k

\* background_update moving the value away from the target.
background_update_away(k, rate, lo, hi, target) ==
    LET change == IF k < 0 THEN -(rate * DRIFT_FACTOR * abs(k))
                  ELSE IF k > 0 THEN rate * DRIFT_FACTOR * abs(k)
                  ELSE 0 IN
    clamp_near(lo, hi, target, float_add(k, change, 1000 * 1000))

\* Lines 597-622 for a room that is not viewed and has no mode active: the
\* change is rate * abs(target - current) * 0.15 towards the target, nothing
\* at the target, and the value becomes current + change, clamped.
background_update(k, rate, lo, hi, target) ==
    LET change == IF k < 0 THEN rate * DRIFT_FACTOR * abs(k)
                  ELSE IF k > 0 THEN -(rate * DRIFT_FACTOR * abs(k))
                  ELSE 0 IN
    clamp_near(lo, hi, target, float_add(k, change, 1000 * 1000))

Spacings == -MaxSpacings..MaxSpacings

\* The first room is viewed; every other room is idle, its temperature and
\* humidity anywhere within MaxSpacings of the targets.
InitBackground ==
    /\ rooms = PersistedRooms
    /\ current_room = rooms[1]
    /\ \E temps \in [RoomNames \ {current_room} -> Spacings],
          humidities \in [RoomNames \ {current_room} -> Spacings] :
          room_states = [r \in RoomNames |->
              IF r = current_room THEN get_default_room_state
              ELSE [get_default_room_state EXCEPT !.temp = temps[r],
                                                  !.humidity = humidities[r]]]
    /\ now = 0
    /\ simulation_running = TRUE
    /\ sim_thread = ThreadIdle
    /\ main_thread = MainIdle
    /\ start_states = room_states

\* The climate of the rooms that are not viewed over one tick; the viewed
\* room's share, with its fluctuation, is the subject of SpecClimate.
BackgroundTick ==
    /\ simulation_running
    /\ Len(sim_thread.ticks) < MaxTicks
    /\ room_states' =
           [r \in DOMAIN room_states |->
               IF r = current_room THEN room_states[r]
               ELSE [room_states[r] EXCEPT
                        !.temp = background_update(
                                     @, BACKGROUND_AMBIENT_DRIFT_RATE_TEMP,
                                     TEMP_MIN, TEMP_MAX, AMBIENT_TEMP_TARGET),
                        !.humidity = background_update(
                                     @, BACKGROUND_AMBIENT_DRIFT_RATE_HUMIDITY,
                                     HUMIDITY_MIN, HUMIDITY_MAX,
                                     AMBIENT_HUMIDITY_TARGET)]]
    /\ sim_thread' = [sim_thread EXCEPT !.ticks = Append(@, now)]
    /\ UNCHANGED <<rooms, current_room, now, simulation_running, main_thread,
                   start_states>>

NextBackground == BackgroundTick

SpecBackground == InitBackground /\ [][NextBackground]_vars

(***************************************************************************)
(* Room names as text                                                      *)
(*                                                                         *)
(* The combobox shows a room under a display name, its name followed by    *)
(* " (T)" or " (S)", and the handlers find the room of a display name by   *)
(* prefixes and by splitting at " (".  In SpecRooms a name is the sequence *)
(* of its characters, the empty sequence standing for None and for "".     *)
(***************************************************************************)

\* str.strip(), the space being the whitespace of the texts here.
RECURSIVE lstrip(_)
lstrip(s) == IF s # << >> /\ Head(s) = " " THEN lstrip(Tail(s)) ELSE s

RECURSIVE rstrip(_)
rstrip(s) ==
    IF s # << >> /\ s[Len(s)] = " " THEN rstrip(SubSeq(s, 1, Len(s) - 1)) ELSE s

strip(s) == rstrip(lstrip(s))

\* s.startswith(prefix)
startswith(s, prefix) ==
    Len(prefix) <= Len(s) /\ SubSeq(s, 1, Len(prefix)) = prefix

\* s.split(" (")[0]: the text before the first " (", all of it without one.
split_suffix(s) ==
    LET at == {i \in 1..Len(s) - 1 : s[i] = " " /\ s[i + 1] = "("} IN
    IF at = {} THEN s
    ELSE SubSeq(s, 1, (CHOOSE i \in at : \A k \in at : i <= k) - 1)

\* split_suffix that keeps the whole text: a display name taken for the name.
split_suffix_whole(s) == s

\* The display name of one room.
display_name(room_name, rs) ==
    room_name \o
        (IF rs.timed_heat_active \/ rs.ac_boost_on THEN <<" ", "(", "T", ")">>
         ELSE IF \E k \in 1..Len(rs.scheduled_events) :
                     ~rs.scheduled_events[k].triggered
              THEN <<" ", "(", "S", ")">>
         ELSE << >>)

get_room_display_names(room_list, states) ==
    LET listed == SelectSeq(room_list, LAMBDA r : r \in DOMAIN states) IN
    [i \in 1..Len(listed) |-> display_name(listed[i], states[listed[i]])]

\* The first of the display names that starts with a prefix.
first_startswith(display_names, prefix) ==
    LET at == {i \in 1..Len(display_names) :
                  startswith(display_names[i], prefix)} IN
    display_names[CHOOSE i \in at : \A k \in at : i <= k]

\* ui is the selection: room_var, the text of the combobox, and current_room,
\* the viewed room; raised is set when a handler ends in an exception.
update_room_combobox_display(ui, room_list, states) ==
    LET new_display_values == get_room_display_names(room_list, states)
        found == /\ ui.current_room # << >>
                 /\ \E i \in 1..Len(new_display_values) :
                        startswith(new_display_values[i], ui.current_room) IN
    IF found
    THEN [ui EXCEPT !.room_var =
                        first_startswith(new_display_values, ui.current_room)]
    ELSE IF new_display_values # << >>
    THEN [ui EXCEPT !.room_var = new_display_values[1],
                    !.current_room = split_suffix(new_display_values[1])]
    ELSE ui

update_all_ui_for_current_room(ui, room_list, states) ==
    IF ui.current_room = << >> THEN ui
    ELSE LET reset ==
                 IF ui.current_room \in DOMAIN states THEN ui
                 ELSE update_room_combobox_display(
                          [ui EXCEPT !.current_room = split_suffix(room_list[1])],
                          room_list, states) IN
         IF reset.current_room \notin DOMAIN states
         THEN [reset EXCEPT !.raised = TRUE]
         ELSE update_room_combobox_display(reset, room_list, states)

on_room_selected(ui, room_list, states) ==
    LET base_room_name == split_suffix(ui.room_var) IN
    IF base_room_name = << >> THEN ui
    ELSE update_all_ui_for_current_room(
             [ui EXCEPT !.current_room = base_room_name], room_list, states)

\* A name the dialog's checks let through.
valid_room_name(name, room_list) ==
    /\ name # << >>
    /\ Len(name) <= MAX_ROOM_NAME_LENGTH
    /\ \A i \in 1..Len(room_list) : room_list[i] # name

\* The texts of the module's room names and of what the user types.
LivingRoomText == <<"L", "i", "v", "i", "n", "g", " ", "R", "o", "o", "m">>
BedText == <<"B", "e", "d">>
BedroomText == BedText \o <<"r", "o", "o", "m">>
KitchenText == <<"K", "i", "t", "c", "h", "e", "n">>
DenText == <<"D", "e", "n">>
DenOldText == DenText \o <<" ", "(", "o", "l", "d", ")">>
LongestText == [i \in 1..MAX_ROOM_NAME_LENGTH |-> "x"]

DEFAULT_ROOMS_FALLBACK_TEXT == <<LivingRoomText, BedroomText, KitchenText>>

\* What the user may type into the dialog; the empty text stands for Cancel.
TypedTexts ==
    {<< >>, <<" ", " ">>, BedText, <<" ">> \o BedText \o <<" ">>, BedroomText,
     DenText, DenOldText, LongestText, LongestText \o <<"x">>}

\* The room lists a dashboard starts with: the fallback, and a list from a
\* configuration file whose first room has a bracket in its name.
StartRoomLists == {DEFAULT_ROOMS_FALLBACK_TEXT, <<DenOldText, BedroomText>>}

RoomsIdle ==
    [op |-> "none", typed |-> << >>, room_var |-> << >>, raised |-> FALSE,
     before |-> << >>]

\* __init__: the first room is viewed and shown.
InitRooms ==
    /\ rooms \in StartRoomLists
    /\ current_room = rooms[1]
    /\ room_states = [r \in RoomNames |-> get_default_room_state]
    /\ now = 0
    /\ simulation_running = TRUE
    /\ sim_thread = ThreadIdle
    /\ main_thread = [RoomsIdle EXCEPT !.room_var = rooms[1]]
    /\ start_states = room_states

\* main_thread after a handler: op and typed tell which handler ran last and
\* with what text, before the room list it found.
RoomsAfter(ui, name, text) ==
    main_thread' = [main_thread EXCEPT !.op = name, !.typed = text,
                                       !.room_var = ui.room_var,
                                       !.raised = ui.raised,
                                       !.before = rooms]

Selection == [room_var |-> main_thread.room_var, current_room |-> current_room,
              raised |-> FALSE]

\* add_new_room_prompt with a text typed into the dialog; the document it
\* saves is that of SaveState.
AddNewRoomPrompt ==
    /\ Len(rooms) < Cardinality(DOMAIN start_states) + MaxAdded
    /\ \E typed \in TypedTexts :
          LET new_room_name == strip(typed) IN
          IF typed # << >> /\ valid_room_name(new_room_name, rooms)
          THEN LET room_list == Append(rooms, new_room_name)
                   states == [r \in DOMAIN room_states \cup {new_room_name} |->
                                 IF r = new_room_name THEN get_default_room_state
                                 ELSE room_states[r]]
                   shown == update_room_combobox_display(Selection, room_list,
                                                         states)
                   picked == [shown EXCEPT !.room_var =
                                 first_startswith(
                                     get_room_display_names(room_list, states),
                                     new_room_name)]
                   ui == on_room_selected(picked, room_list, states) IN
               /\ rooms' = room_list
               /\ room_states' = states
               /\ current_room' = ui.current_room
               /\ RoomsAfter(ui, "added", typed)
          ELSE /\ RoomsAfter(Selection, "refused", typed)
               /\ UNCHANGED <<rooms, room_states, current_room>>
    /\ UNCHANGED <<now, simulation_running, sim_thread, start_states>>

\* The user picks an entry of the combobox.
SelectDisplayName ==
    /\ \E i \in 1..Len(rooms) :
          LET picked == [Selection EXCEPT !.room_var =
                            get_room_display_names(rooms, room_states)[i]]
              ui == on_room_selected(picked, rooms, room_states) IN
          /\ current_room' = ui.current_room
          /\ RoomsAfter(ui, "selected", picked.room_var)
    /\ UNCHANGED <<rooms, room_states, now, simulation_running, sim_thread,
                   start_states>>

\* Boost AC in the viewed room, which puts " (T)" behind its name.
BoostViewedRoom ==
    /\ current_room \in DOMAIN room_states
    /\ room_states' = [room_states EXCEPT ![current_room] = activate_ac_boost(@)]
    /\ main_thread' = [main_thread EXCEPT !.op = "boost", !.typed = << >>,
                                          !.before = rooms]
    /\ UNCHANGED <<rooms, current_room, now, simulation_running, sim_thread,
                   start_states>>

NextRooms ==
    \/ AddNewRoomPrompt
    \/ SelectDisplayName
    \/ BoostViewedRoom

SpecRooms == InitRooms /\ [][NextRooms]_vars

(***************************************************************************)
(* The login screen (src/auth.py) and the switch to the dashboard          *)
(*                                                                         *)
(* In SpecLogin main_thread is the application: screen is "login",         *)
(* "dashboard" or "quit"; attempts_left, password_hash and command are the *)
(* LoginScreen's fields and the command of its button; file_hash is the    *)
(* password_hash of the configuration file; last tells the handler that    *)
(* ran last, what was entered, what verify_password returned and whether   *)
(* on_login_success_callback was called.                                   *)
(***************************************************************************)

\* No password hash: None, or the key missing from the file.
NoHash == << >>

\* hashlib.sha256(password.encode()).hexdigest(): a digest that tells
\* passwords apart.
hash_password(password) == <<"sha256", password>>

\* verify_password that accepts every password.
verify_password_any(stored_hash, provided_password) == TRUE

verify_password(stored_hash, provided_password) ==
    stored_hash = hash_password(provided_password)

\* What the user may type into the password entry or the confirmation
\* dialog; NoText stands for None, the dialog cancelled, and is none of the
\* passwords.
Passwords == {"", "short", "secret1", "secret2"}
NoText == "(cancelled)"

\* LoginScreen.__init__ on a configuration file with this hash.
login_screen(file_hash) ==
    [screen |-> "login", attempts_left |-> MAX_LOGIN_ATTEMPTS,
     password_hash |-> file_hash,
     command |-> IF file_hash = NoHash THEN "set" ELSE "login",
     file_hash |-> file_hash,
     last |-> [name |-> "init", entered |-> "", verified |-> FALSE,
               called |-> FALSE, attempts_before |-> MAX_LOGIN_ATTEMPTS]]

InitLoginScreen ==
    /\ rooms = << >>
    /\ current_room = "none"
    /\ room_states = << >>
    /\ now = 0
    /\ simulation_running = FALSE
    /\ sim_thread = ThreadIdle
    /\ \E file_hash \in {NoHash, hash_password("secret1"),
                         hash_password("secret2")} :
          main_thread = login_screen(file_hash)
    /\ start_states = << >>

\* A wrong password that costs no attempt.
failed_attempt_not_counted(login) == login

\* A wrong password that quits only once no attempt is left before it.
failed_attempt_one_more(login) ==
    [login EXCEPT !.attempts_left = IF @ > 0 THEN @ - 1 ELSE @,
                  !.screen = IF login.attempts_left > 0 THEN "login" ELSE "quit"]

\* The else branch of attempt_login, lines 142-154: one attempt less, and
\* root.quit() when none is left.
failed_attempt(login) ==
    [login EXCEPT !.attempts_left = @ - 1,
                  !.screen = IF login.attempts_left - 1 > 0 THEN "login"
                             ELSE "quit"]

Last(name, entered, verified, called) ==
    [name |-> name, entered |-> entered, verified |-> verified,
     called |-> called, attempts_before |-> main_thread.attempts_left]

\* attempt_login, from the Login button or from the Return key, which is bound
\* to it whatever the button's command is.  On success on_login_successful
\* builds the dashboard and starts the simulation.
AttemptLogin ==
    /\ main_thread.screen = "login"
    /\ \E entered \in Passwords :
          IF main_thread.password_hash = NoHash
          THEN /\ main_thread' = [main_thread EXCEPT
                                     !.command = "set",
                                     !.last = Last("attempt_login", entered,
                                                   FALSE, FALSE)]
               /\ UNCHANGED <<rooms, current_room, room_states,
                              simulation_running, start_states>>
          ELSE IF entered = ""
          THEN /\ main_thread' = [main_thread EXCEPT
                                     !.last = Last("attempt_login", entered,
                                                   FALSE, FALSE)]
               /\ UNCHANGED <<rooms, current_room, room_states,
                              simulation_running, start_states>>
          ELSE IF verify_password(main_thread.password_hash, entered)
          THEN /\ main_thread' = [main_thread EXCEPT
                                     !.screen = "dashboard",
                                     !.last = Last("attempt_login", entered,
                                                   TRUE, TRUE)]
               /\ rooms' = load_rooms(<< >>)
               /\ current_room' = rooms'[1]
               /\ room_states' = [r \in {rooms'[i] : i \in 1..Len(rooms')} |->
                                     load_room_state(<< >>, r)]
               /\ simulation_running' = TRUE
               /\ start_states' = room_states'
          ELSE /\ main_thread' = [failed_attempt(main_thread) EXCEPT
                                     !.last = Last("attempt_login", entered,
                                                   FALSE, FALSE)]
               /\ UNCHANGED <<rooms, current_room, room_states,
                              simulation_running, start_states>>
    /\ UNCHANGED <<now, sim_thread>>

\* set_new_password, the button's command while a password is to be set;
\* confirm is the text of the confirmation dialog, saved what
\* utils.save_config returns.
SetNewPassword ==
    /\ main_thread.screen = "login"
    /\ main_thread.command = "set"
    /\ \E new_password \in Passwords, confirm \in Passwords \cup {NoText},
          saved \in BOOLEAN :
          main_thread' =
              IF new_password = "" \/ Len(new_password) < MIN_PASSWORD_LENGTH
                    \/ new_password # confirm
              THEN [main_thread EXCEPT
                       !.last = Last("set_new_password", new_password,
                                     FALSE, FALSE)]
              ELSE [main_thread EXCEPT
                       !.password_hash = hash_password(new_password),
                       !.file_hash = IF saved THEN hash_password(new_password)
                                     ELSE @,
                       !.command = IF saved THEN "login" ELSE @,
                       !.last = Last("set_new_password", new_password,
                                     FALSE, FALSE)]
    /\ UNCHANGED <<rooms, current_room, room_states, now, simulation_running,
                   sim_thread, start_states>>

\* logout: the dashboard goes, stop_simulation clears the flag, and a new
\* LoginScreen reads the configuration file.
Logout ==
    /\ main_thread.screen = "dashboard"
    /\ main_thread' = [login_screen(main_thread.file_hash) EXCEPT
                          !.last = Last("logout", "", FALSE, FALSE)]
    /\ simulation_running' = stop_simulation(simulation_running)
    /\ UNCHANGED <<rooms, current_room, room_states, now, sim_thread,
                   start_states>>

NextLogin ==
    \/ AttemptLogin
    \/ SetNewPassword
    \/ Logout

SpecLogin == InitLoginScreen /\ [][NextLogin]_vars

(***************************************************************************)
(* The control buttons of the viewed room                                  *)
(* main_thread is the panel here: buttons, as the last call of             *)
(* _update_button_states configured them, and pressed, the last button the *)
(* user pressed.  A disabled ttk.Button does not call its command.         *)
(***************************************************************************)
NORMAL == "normal"
DISABLED == "disabled"

\* _update_button_states whose timed-heat branch leaves Heat OFF enabled.
update_button_states_heat_off_in_timed(rs) ==
    LET is_timed_heating == rs.timed_heat_active
        is_ac_boosting == rs.ac_boost_on
        is_manual_heating == rs.heat_on /\ ~is_timed_heating
        idle == ~is_timed_heating /\ ~is_manual_heating /\ ~is_ac_boosting IN
    [heat_on_button |-> IF idle THEN NORMAL ELSE DISABLED,
     heat_off_button |->
         IF is_timed_heating \/ is_manual_heating THEN NORMAL ELSE DISABLED,
     ac_boost_button |-> IF idle THEN NORMAL ELSE DISABLED,
     timed_heat_button |->
         IF is_timed_heating \/ idle THEN NORMAL ELSE DISABLED,
     timed_heat_text |->
         IF is_timed_heating THEN "Cancel Timed Heat" ELSE "Timed Heat",
     schedule_event_button |-> IF idle THEN NORMAL ELSE DISABLED]

\* The widget states _update_button_states applies for the room state rs.
update_button_states(rs) ==
    LET is_timed_heating == rs.timed_heat_active
        is_ac_boosting == rs.ac_boost_on
        is_manual_heating == rs.heat_on /\ ~is_timed_heating IN
    IF is_timed_heating
    THEN [heat_on_button |-> DISABLED, heat_off_button |-> DISABLED,
          ac_boost_button |-> DISABLED, timed_heat_button |-> NORMAL,
          timed_heat_text |-> "Cancel Timed Heat",
          schedule_event_button |-> DISABLED]
    ELSE IF is_manual_heating
    THEN [heat_on_button |-> DISABLED, heat_off_button |-> NORMAL,
          ac_boost_button |-> DISABLED, timed_heat_button |-> DISABLED,
          timed_heat_text |-> "Timed Heat",
          schedule_event_button |-> DISABLED]
    ELSE IF is_ac_boosting
    THEN [heat_on_button |-> DISABLED, heat_off_button |-> DISABLED,
          ac_boost_button |-> DISABLED, timed_heat_button |-> DISABLED,
          timed_heat_text |-> "Timed Heat",
          schedule_event_button |-> DISABLED]
    ELSE [heat_on_button |-> NORMAL, heat_off_button |-> DISABLED,
          ac_boost_button |-> NORMAL, timed_heat_button |-> NORMAL,
          timed_heat_text |-> "Timed Heat",
          schedule_event_button |-> NORMAL]

Panel(rs, pressed) == [buttons |-> update_button_states(rs), pressed |-> pressed]

\* The dashboard opens on rooms in any of the modes a file may hold, and
\* update_all_ui_for_current_room has configured the buttons.
InitButtons ==
    /\ rooms = PersistedRooms
    /\ current_room \in RoomNames
    /\ \E modes \in [RoomNames -> ModesAtStart] :
          room_states = [r \in RoomNames |->
                            with_mode(get_default_room_state, modes[r])]
    /\ now = 0
    /\ simulation_running = TRUE
    /\ sim_thread = ThreadIdle
    /\ main_thread = Panel(room_states[current_room], "none")
    /\ start_states = room_states

\* A press of a button that is enabled: the handler runs on the viewed room
\* and, where it calls _update_button_states, the buttons are configured
\* anew.
Press(button, pressed, after, refresh) ==
    /\ main_thread.buttons[button] = NORMAL
    /\ room_states' = [room_states EXCEPT ![current_room] = after]
    /\ main_thread' = IF refresh THEN Panel(after, pressed)
                      ELSE [main_thread EXCEPT !.pressed = pressed]
    /\ UNCHANGED <<rooms, current_room, now, simulation_running, sim_thread,
                   start_states>>

PressHeatOn ==
    LET rs == room_states[current_room] IN
    Press("heat_on_button", "Heat ON", toggle_heat_on(rs),
          toggle_heat_on(rs) # rs)

PressHeatOff ==
    LET rs == room_states[current_room] IN
    Press("heat_off_button", "Heat OFF", toggle_heat_off(rs),
          toggle_heat_off(rs) # rs)

PressBoostAc ==
    LET rs == room_states[current_room] IN
    Press("ac_boost_button", "Boost AC", activate_ac_boost(rs),
          activate_ac_boost(rs) # rs)

PressTimedHeat ==
    \E d \in Durations \cup {0} :
        Press("timed_heat_button", main_thread.buttons.timed_heat_text,
              toggle_timed_heat(room_states[current_room], d), TRUE)

PressSchedule ==
    /\ EventsScheduled < MaxEvents
    /\ \E delay \in Delays, d \in Durations :
          /\ now + delay <= MaxNow
          /\ Press("schedule_event_button", "Schedule",
                   schedule_event(room_states[current_room], now, delay, d),
                   FALSE)

\* on_room_selected ends in update_all_ui_for_current_room, which configures
\* the buttons for the room now viewed.  The user selects before the first
\* tick.
SelectRoomOfPanel ==
    /\ TicksDone = 0
    /\ \E i \in 1..Len(rooms) : current_room' = rooms[i]
    /\ main_thread' = Panel(room_states[current_room'], "select")
    /\ UNCHANGED <<rooms, room_states, now, simulation_running, sim_thread,
                   start_states>>

\* A tick, and the update_all_ui_for_current_room it hands to the main loop.
TickOfPanel ==
    /\ simulation_running
    /\ TicksDone < MaxTicks
    /\ room_states' = simulation_tick(room_states, current_room, now)
    /\ main_thread' = Panel(room_states'[current_room], "tick")
    /\ UNCHANGED <<rooms, current_room, now, simulation_running, sim_thread,
                   start_states>>

NextButtons ==
    \/ PressHeatOn
    \/ PressHeatOff
    \/ PressBoostAc
    \/ PressTimedHeat
    \/ PressSchedule
    \/ SelectRoomOfPanel
    \/ ClockAdvance
    \/ TickOfPanel

SpecButtons == InitButtons /\ [][NextButtons]_vars

(***************************************************************************)
(* Serial reference: the handlers and the passes run one after another     *)
(***************************************************************************)
\* The room states a completed handler leaves when nothing runs during it.
SerialOp(states, o) ==
    CASE o.op = "toggle_heat_on" ->
           {[states EXCEPT ![o.room] = toggle_heat_on(@)]}
      [] o.op = "toggle_heat_off" ->
           {[states EXCEPT ![o.room] = toggle_heat_off(@)]}
      [] o.op = "activate_ac_boost" ->
           {[states EXCEPT ![o.room] = activate_ac_boost(@)]}
      [] o.op = "toggle_timed_heat" ->
           {[states EXCEPT ![o.room] = toggle_timed_heat(@, d)] :
               d \in IF o.duration_minutes = -1
                     THEN Durations \cup {0} ELSE {o.duration_minutes}}
      [] o.op = "schedule_event_prompt" ->
           {[states EXCEPT ![o.room] =
               schedule_event(@, o.now_time, o.delay_minutes, o.duration_minutes)]}
      [] OTHER -> {states}

\* Every result of running the handlers of ops, in their order, and the
\* passes of ticks, in their order, one at a time.
RECURSIVE SerialOrders(_, _, _)
SerialOrders(states, ops, ticks) ==
    IF ops = << >> /\ ticks = << >>
    THEN {states}
    ELSE (IF ops = << >> THEN {}
          ELSE UNION {SerialOrders(s, Tail(ops), ticks) :
                         s \in SerialOp(states, Head(ops))})
         \cup
         (IF ticks = << >> THEN {}
          ELSE SerialOrders(simulation_tick(states, current_room, Head(ticks)),
                            ops, Tail(ticks)))

\* Room states without the count of executions kept for the events.
WithoutExecutions(states) ==
    [r \in DOMAIN states |->
        [states[r] EXCEPT !.scheduled_events =
            [k \in DOMAIN @ |-> [@[k] EXCEPT !.executions = 0]]]]

ControlOps ==
    {"toggle_heat_on", "toggle_heat_off", "activate_ac_boost", "toggle_timed_heat"}

\* No handler in progress and the thread between two passes.
Quiescent == main_thread.pc = "idle" /\ sim_thread.pc = "sleep"

Min(a, b) == IF a < b THEN a ELSE b

\* What every room state shows between two ticks: as many temperature as
\* humidity updates, histories of one length, one sample per elapsed second.
WholeTickState(s) ==
    /\ s.temp = s.humidity
    /\ Len(s.temp_data) = Len(s.time_data)
    /\ Len(s.humidity_data) = Len(s.time_data)
    /\ Len(s.time_data) = Min(s.simulation_time_elapsed, GRAPH_DATA_POINTS)

(***************************************************************************)
(* Properties of whole handlers and whole ticks                            *)
(***************************************************************************)
\* A step that is one tick.
TickStep == TicksDone' = TicksDone + 1

DueEvents(rs, t) ==
    {i \in 1..Len(rs.scheduled_events) : event_is_due(rs.scheduled_events[i], t)}

Smallest(S) == CHOOSE i \in S : \A j \in S : i <= j

SameControls(a, b) ==
    /\ a.heat_on = b.heat_on
    /\ a.ac_boost_on = b.ac_boost_on
    /\ a.ac_boost_timer = b.ac_boost_timer
    /\ a.timed_heat_active = b.timed_heat_active
    /\ a.timed_heat_remaining_seconds = b.timed_heat_remaining_seconds

Flag(b) == IF b THEN 1 ELSE 0

\* C1 (as claimed): in every reachable state at most one of heat_on,
\* ac_boost_on and timed_heat_active is true in each room.
C1_AtMostOneFlag ==
    \A r \in DOMAIN room_states :
        Flag(room_states[r].heat_on) + Flag(room_states[r].ac_boost_on)
            + Flag(room_states[r].timed_heat_active) <= 1

\* C1 (amended): in every state reached by whole handlers, event firings and
\* ticks, each room is in at most one of the modes manual heat (heat_on
\* without timed_heat_active), AC boost and timed heat; timed heat holds
\* heat_on and timed_heat_active together, and AC boost holds neither.
C1_AtMostOneMode ==
    \A r \in DOMAIN room_states :
        /\ room_states[r].timed_heat_active => room_states[r].heat_on
        /\ room_states[r].ac_boost_on =>
               ~room_states[r].heat_on /\ ~room_states[r].timed_heat_active

\* A scheduled event has started timed heat, and a tick has passed since.
C1_Witness ==
    \E r \in DOMAIN room_states :
        /\ room_states[r].timed_heat_active /\ room_states[r].heat_on
        /\ \E i \in 1..Len(room_states[r].scheduled_events) :
               room_states[r].scheduled_events[i].triggered
        /\ TicksDone = MaxTicks

\* C2: a control operation is atomic with respect to the tick: whenever no
\* handler is in progress and the thread is between two passes, the room
\* states are those of some serial order of the control operations completed
\* and the passes made since the start.
C2_ControlOpsSerializable ==
    (/\ Started
     /\ Quiescent
     /\ \A k \in 1..Len(main_thread.ops) : main_thread.ops[k].op \in ControlOps)
    => WithoutExecutions(room_states) \in
          {WithoutExecutions(s) :
              s \in SerialOrders(start_states, main_thread.ops, sim_thread.ticks)}

\* C3: once stop_simulation has returned (the flag is cleared), no step
\* changes a room state.
C3_NoMutationAfterStop ==
    [][~simulation_running => room_states' = room_states]_vars

\* C4: every room state in a saved document is the state of a room between
\* two ticks, never one caught in the middle of an update.
C4_SnapshotOfWholeTicks ==
    \A r \in DOMAIN main_thread.written : WholeTickState(main_thread.written[r])

\* C5: execute_scheduled_event is called at most once for an event: exactly
\* once for a triggered event, never for an untriggered one, whatever the
\* number of ticks evaluated after its due time.
C5_ExecutedAtMostOnce ==
    \A r \in DOMAIN room_states :
        \A i \in 1..Len(room_states[r].scheduled_events) :
            LET event == room_states[r].scheduled_events[i] IN
            /\ event.executions <= 1
            /\ event.triggered <=> event.executions = 1

\* An event was triggered by the first tick and a second tick has evaluated it.
C5_Witness ==
    \E r \in DOMAIN room_states :
        \E i \in 1..Len(room_states[r].scheduled_events) :
            LET event == room_states[r].scheduled_events[i] IN
            /\ event.triggered
            /\ TicksDone = 2
            /\ room_states[r].timed_heat_active
            /\ room_states[r].timed_heat_remaining_seconds =
                   event.duration_minutes * SECONDS_PER_MINUTE - 2

\* C6: a tick that evaluates due untriggered events of a room whose heat_on
\* or ac_boost_on is true marks them triggered and leaves the room's flags
\* and timers as the tick's timer step alone makes them; a triggered event
\* is never changed again.
C6_ConflictingEventSkipped ==
    [][ /\ TickStep =>
            \A r \in DOMAIN room_states :
                LET rs == room_states[r]
                    due == DueEvents(rs, now) IN
                (due # {} /\ (rs.heat_on \/ rs.ac_boost_on)) =>
                    /\ SameControls(room_states'[r], process_timers(rs))
                    /\ \A i \in due :
                          /\ room_states'[r].scheduled_events[i].triggered
                          /\ room_states'[r].scheduled_events[i].executions = 1
        /\ \A r \in DOMAIN room_states :
              \A i \in 1..Len(room_states[r].scheduled_events) :
                  room_states[r].scheduled_events[i].triggered =>
                      room_states'[r].scheduled_events[i]
                          = room_states[r].scheduled_events[i]
      ]_vars

\* The only tick so far evaluated an event of a room whose AC boost was running.
C6_Witness ==
    \E r \in DOMAIN room_states :
        /\ TicksDone = 1
        /\ room_states[r].ac_boost_on
        /\ room_states[r].ac_boost_timer = AC_BOOST_SECONDS - 1
        /\ ~room_states[r].timed_heat_active
        /\ \E i \in 1..Len(room_states[r].scheduled_events) :
               room_states[r].scheduled_events[i].triggered

\* C7: when several untriggered events of an idle room are due in one tick,
\* they are executed in insertion order: the earliest inserted one is applied
\* first and takes effect (its duration, less the tick's own second, remains).
C7_EarliestInsertedWins ==
    [][ TickStep =>
          \A r \in DOMAIN room_states :
              LET rs == room_states[r]
                  due == DueEvents(rs, now) IN
              (Cardinality(due) >= 2 /\ NoModeActive(rs)) =>
                  /\ room_states'[r].timed_heat_active
                  /\ room_states'[r].timed_heat_remaining_seconds =
                         rs.scheduled_events[Smallest(due)].duration_minutes
                             * SECONDS_PER_MINUTE - SIMULATION_TICK_INTERVAL_SECONDS
      ]_vars

\* Two events with different durations fired in the only tick so far, and the
\* room heats for the duration of the later inserted one.
C7_Witness ==
    \E r \in DOMAIN room_states :
        LET rs == room_states[r] IN
        /\ TicksDone = 1
        /\ Len(rs.scheduled_events) = 2
        /\ rs.scheduled_events[1].triggered /\ rs.scheduled_events[2].triggered
        /\ rs.scheduled_events[1].duration_minutes
               # rs.scheduled_events[2].duration_minutes
        /\ rs.timed_heat_active
        /\ rs.timed_heat_remaining_seconds =
               rs.scheduled_events[2].duration_minutes * SECONDS_PER_MINUTE
                   - SIMULATION_TICK_INTERVAL_SECONDS

\* C8 (as claimed): a tick that evaluates the due untriggered event of an idle
\* room marks it triggered and ends with timed_heat_active, heat_on and
\* timed_heat_remaining_seconds = d * 60.
C8_FullDurationAtTickEnd ==
    [][ TickStep =>
          \A r \in DOMAIN room_states :
              LET rs == room_states[r]
                  due == DueEvents(rs, now) IN
              (Cardinality(due) = 1 /\ NoModeActive(rs)) =>
                  LET i == Smallest(due) IN
                  /\ room_states'[r].scheduled_events[i].triggered
                  /\ room_states'[r].timed_heat_active
                  /\ room_states'[r].heat_on
                  /\ room_states'[r].timed_heat_remaining_seconds =
                         rs.scheduled_events[i].duration_minutes * SECONDS_PER_MINUTE
      ]_vars

\* C8 (amended): such a tick marks the event triggered and activates timed
\* heat with d * 60 seconds, of which the tick's own timer step has counted
\* one when the tick ends: timed_heat_active and heat_on are true and
\* timed_heat_remaining_seconds = d * 60 - 1.
C8_DurationLessOneAtTickEnd ==
    [][ TickStep =>
          \A r \in DOMAIN room_states :
              LET rs == room_states[r]
                  due == DueEvents(rs, now) IN
              (Cardinality(due) = 1 /\ NoModeActive(rs)) =>
                  LET i == Smallest(due) IN
                  /\ room_states'[r].scheduled_events[i].triggered
                  /\ room_states'[r].timed_heat_active
                  /\ room_states'[r].heat_on
                  /\ room_states'[r].timed_heat_remaining_seconds =
                         rs.scheduled_events[i].duration_minutes * SECONDS_PER_MINUTE
                             - SIMULATION_TICK_INTERVAL_SECONDS
      ]_vars

\* The only event of a room fired in the only tick so far and started timed heat.
C8_Witness ==
    \E r \in DOMAIN room_states :
        LET rs == room_states[r] IN
        /\ TicksDone = 1
        /\ Len(rs.scheduled_events) = 1
        /\ rs.scheduled_events[1].triggered
        /\ rs.timed_heat_active /\ rs.heat_on
        /\ rs.timed_heat_remaining_seconds =
               rs.scheduled_events[1].duration_minutes * SECONDS_PER_MINUTE
                   - SIMULATION_TICK_INTERVAL_SECONDS

\* C9: after timed heat is started in an idle room with duration d and no other
\* handler runs, timed_heat_active is true during the first 60*d - 1 ticks, and
\* from the tick number 60*d on timed_heat_active and heat_on are false and
\* timed_heat_remaining_seconds is 0.
C9_TimedHeatRunsForDuration ==
    main_thread.op = "toggle_timed_heat" =>
        LET rs == room_states[main_thread.room]
            total == main_thread.duration_minutes * SECONDS_PER_MINUTE
            k == TicksDone - TicksIn(start_states) IN
        /\ k < total => rs.timed_heat_active
        /\ k >= total =>
              /\ ~rs.timed_heat_active
              /\ ~rs.heat_on
              /\ rs.timed_heat_remaining_seconds = 0

\* Exactly 60*d ticks after a request for the longest duration, in a room the
\* user no longer watches.
C9_Witness ==
    /\ main_thread.op = "toggle_timed_heat"
    /\ main_thread.duration_minutes = MaxDuration
    /\ main_thread.room # current_room
    /\ TicksDone - TicksIn(start_states) = MaxDuration * SECONDS_PER_MINUTE
    /\ ~room_states[main_thread.room].timed_heat_active

TimersInRange(rs) ==
    /\ rs.timed_heat_remaining_seconds >= 0
    /\ rs.ac_boost_timer >= 0
    /\ ~rs.timed_heat_active => rs.timed_heat_remaining_seconds = 0
    /\ ~rs.ac_boost_on => rs.ac_boost_timer = 0

\* C10: in every step, for every room, a timer whose mode is active before and
\* after the step does not increase; the timers are never negative; and the
\* timer of an inactive mode is 0, from the step that deactivates the mode on.
C10_TimersMonotone ==
    [][ \A r \in DOMAIN room_states :
          LET rs == room_states[r]
              rs2 == room_states'[r] IN
          /\ TimersInRange(rs) /\ TimersInRange(rs2)
          /\ (rs.timed_heat_active /\ rs2.timed_heat_active) =>
                 rs2.timed_heat_remaining_seconds <= rs.timed_heat_remaining_seconds
          /\ (rs.ac_boost_on /\ rs2.ac_boost_on) =>
                 rs2.ac_boost_timer <= rs.ac_boost_timer
          /\ (TickStep /\ rs.timed_heat_active /\ rs2.timed_heat_active) =>
                 rs2.timed_heat_remaining_seconds < rs.timed_heat_remaining_seconds
          /\ (TickStep /\ rs.ac_boost_on /\ rs2.ac_boost_on) =>
                 rs2.ac_boost_timer < rs.ac_boost_timer
      ]_vars

\* A timed heat in one room and an AC boost in the other have both counted
\* down to their last second.
C10_Witness ==
    \E r, q \in DOMAIN room_states :
        /\ r # q
        /\ room_states[r].timed_heat_active
        /\ room_states[r].timed_heat_remaining_seconds = 1
        /\ room_states[q].ac_boost_on
        /\ room_states[q].ac_boost_timer = 1

(***************************************************************************)
(* The contracts of the control handlers, under SpecHandlers               *)
(***************************************************************************)
\* The handler recorded in main_thread ran last, on the room it names.
Ran(name) == main_thread.op = name

\* The state the recorded handler found in its room, and the state it left.
Before == start_states[main_thread.room]

After == room_states[main_thread.room]

\* The recorded handler touched no room but its own.
OtherRoomsKept ==
    \A r \in RoomNames : r # main_thread.room => room_states[r] = start_states[r]

\* C11: toggle_heat_on sets heat_on only when neither ac_boost_on nor
\* timed_heat_active is true in the viewed room; when either is true the
\* handler changes no field of any room.
C11_HeatOnOnlyWhenFree ==
    Ran("toggle_heat_on") =>
        /\ OtherRoomsKept
        /\ (Before.ac_boost_on \/ Before.timed_heat_active) => After = Before
        /\ ~(Before.ac_boost_on \/ Before.timed_heat_active)
               => After = [Before EXCEPT !.heat_on = TRUE]

\* toggle_heat_on was called during an AC boost.
C11_Witness ==
    /\ Ran("toggle_heat_on")
    /\ Before.ac_boost_on
    /\ ~After.heat_on

\* C12: activate_ac_boost starts a boost only when neither heat_on nor
\* timed_heat_active is true, and a boost it starts has ac_boost_on true and
\* ac_boost_timer = 30; called while heat_on is true it changes nothing.
C12_AcBoostOnlyWithoutHeat ==
    Ran("activate_ac_boost") =>
        /\ OtherRoomsKept
        /\ (Before.heat_on \/ Before.timed_heat_active) => After = Before
        /\ (~Before.heat_on /\ ~Before.timed_heat_active /\ ~Before.ac_boost_on)
               => After = [Before EXCEPT !.ac_boost_on = TRUE,
                                         !.ac_boost_timer = 30]
        /\ After # Before => ~Before.heat_on /\ ~Before.timed_heat_active

\* activate_ac_boost was called while manual heat was on.
C12_Witness ==
    /\ Ran("activate_ac_boost")
    /\ Before.heat_on
    /\ ~Before.timed_heat_active
    /\ ~After.ac_boost_on

\* C13: toggle_heat_off clears heat_on only when heat_on is true and
\* timed_heat_active is false; during timed heat it leaves heat_on,
\* timed_heat_active and the remaining seconds as they were; it never
\* changes ac_boost_on or ac_boost_timer.
C13_HeatOffFrame ==
    Ran("toggle_heat_off") =>
        /\ OtherRoomsKept
        /\ (Before.heat_on /\ ~Before.timed_heat_active)
               => After = [Before EXCEPT !.heat_on = FALSE]
        /\ Before.timed_heat_active
               => /\ After.heat_on = Before.heat_on
                  /\ After.timed_heat_active
                  /\ After.timed_heat_remaining_seconds
                         = Before.timed_heat_remaining_seconds
        /\ After.heat_on # Before.heat_on
               => Before.heat_on /\ ~Before.timed_heat_active
        /\ After.ac_boost_on = Before.ac_boost_on
        /\ After.ac_boost_timer = Before.ac_boost_timer

\* toggle_heat_off was called during timed heat.
C13_Witness ==
    /\ Ran("toggle_heat_off")
    /\ Before.timed_heat_active
    /\ After.heat_on
    /\ After.timed_heat_remaining_seconds > 0

\* C14: toggle_timed_heat with a duration of d minutes starts timed heat only
\* when heat_on, ac_boost_on and timed_heat_active are all false, and then
\* sets timed_heat_active, heat_on and a remaining time of d * 60 seconds;
\* when heat_on or ac_boost_on is true and timed heat is not active the room
\* is left as it was.
C14_TimedHeatStartsOnlyWhenIdle ==
    (Ran("toggle_timed_heat") /\ main_thread.duration_minutes # 0) =>
        /\ OtherRoomsKept
        /\ (~Before.heat_on /\ ~Before.ac_boost_on /\ ~Before.timed_heat_active)
               => After = [Before EXCEPT
                              !.timed_heat_active = TRUE,
                              !.timed_heat_remaining_seconds =
                                  main_thread.duration_minutes * 60,
                              !.heat_on = TRUE]
        /\ (~Before.timed_heat_active /\ (Before.heat_on \/ Before.ac_boost_on))
               => After = Before
        /\ (After.timed_heat_active /\ ~Before.timed_heat_active)
               => ~Before.heat_on /\ ~Before.ac_boost_on

\* Timed heat was asked for while manual heat was on.
C14_Witness ==
    /\ Ran("toggle_timed_heat")
    /\ main_thread.duration_minutes # 0
    /\ Before.heat_on
    /\ ~Before.timed_heat_active
    /\ ~After.timed_heat_active

\* C15: cancelling timed heat sets timed_heat_active false, heat_on false and
\* the remaining seconds to 0, and leaves ac_boost_on, ac_boost_timer,
\* temperature, humidity, scheduled events and history as they were.
C15_CancelFrame ==
    (Ran("toggle_timed_heat") /\ Before.timed_heat_active) =>
        /\ OtherRoomsKept
        /\ ~After.timed_heat_active
        /\ ~After.heat_on
        /\ After.timed_heat_remaining_seconds = 0
        /\ After.ac_boost_on = Before.ac_boost_on
        /\ After.ac_boost_timer = Before.ac_boost_timer
        /\ After.temp = Before.temp
        /\ After.humidity = Before.humidity
        /\ After.scheduled_events = Before.scheduled_events
        /\ After.time_data = Before.time_data
        /\ After.temp_data = Before.temp_data
        /\ After.humidity_data = Before.humidity_data
        /\ After.simulation_time_elapsed = Before.simulation_time_elapsed

\* Timed heat was cancelled after a tick had recorded history.
C15_Witness ==
    /\ Ran("toggle_timed_heat")
    /\ Before.timed_heat_active
    /\ Before.timed_heat_remaining_seconds > 0
    /\ Len(Before.time_data) > 0
    /\ ~After.timed_heat_active

(***************************************************************************)
(* The tick and the rooms that are not watched, under SpecAcBoost          *)
(***************************************************************************)
\* What one tick does to the timers and the due events of every room.
EveryRoomTicked ==
    \A r \in RoomNames :
        LET rs == room_states[r]
            after == room_states'[r] IN
        /\ rs.timed_heat_active
               => after.timed_heat_remaining_seconds
                      = rs.timed_heat_remaining_seconds - 1
        /\ rs.ac_boost_on => after.ac_boost_timer = rs.ac_boost_timer - 1
        /\ \A i \in DueEvents(rs, now) :
               /\ after.scheduled_events[i].triggered
               /\ after.scheduled_events[i].executions = 1

\* An AC boost asked for k ticks ago runs until its tick number 30.
AcBoostRunsThirtyTicks ==
    Ran("activate_ac_boost") =>
        LET rs == room_states[main_thread.room]
            k == TicksDone - TicksIn(start_states) IN
        /\ k < 30 => rs.ac_boost_on /\ rs.ac_boost_timer = 30 - k
        /\ k >= 30 => ~rs.ac_boost_on /\ rs.ac_boost_timer = 0

\* C16: every tick evaluates the due events of every room, watched or not, and
\* takes one second from every active timer; an AC boost ends, with
\* ac_boost_on false and ac_boost_timer 0, exactly 30 ticks after it was
\* started, also when the user has changed the room to watch in between.
C16_AllRoomsTickedAcBoostThirty ==
    /\ []AcBoostRunsThirtyTicks
    /\ [][TickStep => EveryRoomTicked]_vars

\* The tick number 30 of a boost has ended it in a room that is no longer
\* watched, and an event of a room was triggered on the way.
C16_Witness ==
    /\ Ran("activate_ac_boost")
    /\ main_thread.room # current_room
    /\ TicksDone - TicksIn(start_states) = 30
    /\ ~room_states[main_thread.room].ac_boost_on
    /\ \E r \in RoomNames :
           \E i \in 1..Len(room_states[r].scheduled_events) :
               room_states[r].scheduled_events[i].triggered

(***************************************************************************)
(* The climate values, under SpecClimate                                   *)
(***************************************************************************)
\* C17: after every tick, every room has 5.0 <= temp <= 35.0 and
\* 10.0 <= humidity <= 90.0.
C17_ClimateClamped ==
    TicksDone > 0 =>
        \A r \in RoomNames :
            /\ 5000 <= room_states[r].temp
            /\ room_states[r].temp <= 35000
            /\ 10000 <= room_states[r].humidity
            /\ room_states[r].humidity <= 90000

\* A heated room that started below 35.0 was held at 35.0 by a tick.
C17_Witness ==
    /\ TicksDone > 0
    /\ \E r \in RoomNames :
          /\ start_states[r].temp < TEMP_MAX
          /\ room_states[r].heat_on
          /\ room_states[r].temp = TEMP_MAX

(***************************************************************************)
(* The history of the viewed room, under SpecLong and Spec                 *)
(***************************************************************************)
HistoryLengths(rs) ==
    {Len(rs.time_data), Len(rs.temp_data), Len(rs.humidity_data)}

\* A full history loses its first entry and gains one at the end.
OldestDropped(old, new) ==
    Len(old) = 60 =>
        /\ Len(new) = 60
        /\ \A i \in 1..59 : new[i] = old[i + 1]

\* C18: time_data, temp_data and humidity_data never hold more than
\* GRAPH_DATA_POINTS (60) entries, and a tick that finds 60 entries drops the
\* oldest one.
C18_HistoryBounded ==
    /\ [](\A r \in RoomNames : \A n \in HistoryLengths(room_states[r]) : n <= 60)
    /\ [][TickStep =>
             LET rs == room_states[current_room]
                 after == room_states'[current_room] IN
             /\ OldestDropped(rs.time_data, after.time_data)
             /\ OldestDropped(rs.temp_data, after.temp_data)
             /\ OldestDropped(rs.humidity_data, after.humidity_data)
             /\ Len(rs.time_data) = 60
                    => after.time_data[60] = after.simulation_time_elapsed]_vars

\* A room has been watched for more than 60 ticks: its first entries are gone.
C18_Witness ==
    \E r \in RoomNames :
        /\ room_states[r].simulation_time_elapsed > 60
        /\ Len(room_states[r].time_data) = 60
        /\ room_states[r].time_data[1] = room_states[r].simulation_time_elapsed - 59

\* A step in which the climate of every room was updated: a tick.
ClimateStep ==
    \A r \in RoomNames : room_states'[r].temp = room_states[r].temp + 1

\* new is old with x appended, the first entry dropped when old was full.
AppendedOne(old, new, x) ==
    new = IF Len(old) >= 60 THEN Append(Tail(old), x) ELSE Append(old, x)

\* C19: a tick appends one (elapsed, temp, humidity) triple to the history of
\* the viewed room and advances that room's simulation_time_elapsed only; the
\* histories and elapsed times of the other rooms stay as they were, and no
\* step makes a room's simulation_time_elapsed smaller.
C19_HistoryOfViewedRoomOnly ==
    /\ [][ClimateStep =>
             \A r \in RoomNames :
                 LET rs == room_states[r]
                     after == room_states'[r] IN
                 IF r = current_room
                 THEN /\ after.simulation_time_elapsed
                             = rs.simulation_time_elapsed + 1
                      /\ AppendedOne(rs.time_data, after.time_data,
                                     after.simulation_time_elapsed)
                      /\ AppendedOne(rs.temp_data, after.temp_data, after.temp)
                      /\ AppendedOne(rs.humidity_data, after.humidity_data,
                                     after.humidity)
                 ELSE /\ after.simulation_time_elapsed = rs.simulation_time_elapsed
                      /\ after.time_data = rs.time_data
                      /\ after.temp_data = rs.temp_data
                      /\ after.humidity_data = rs.humidity_data]_vars
    /\ [][\A r \in RoomNames :
             room_states'[r].simulation_time_elapsed
                 >= room_states[r].simulation_time_elapsed]_vars

\* Two ticks have passed, one with each room watched: each room has one entry.
C19_Witness ==
    /\ \A r \in RoomNames :
          /\ room_states[r].temp = 2
          /\ room_states[r].simulation_time_elapsed = 1
          /\ Len(room_states[r].time_data) = 1
    /\ \E r \in RoomNames : room_states[r].temp_data # room_states[current_room].temp_data

(***************************************************************************)
(* Saving and loading, under SpecRoundTrip                                 *)
(***************************************************************************)
\* The fields of an event that are part of the program's state.
EventFields(events) ==
    [k \in 1..Len(events) |->
        <<events[k].start_time_iso, events[k].action,
          events[k].duration_minutes, events[k].triggered>>]

\* C20: the state loaded by __init__ from what _save_state_to_config wrote
\* has the same room list in the same order and, for every room, the same
\* control flags, timers, scheduled events and history, entry by entry.
C20_SaveLoadRoundTrip ==
    [][(main_thread.op = "save_state" /\ main_thread'.op = "restart") =>
          /\ rooms' = rooms
          /\ DOMAIN room_states' = DOMAIN room_states
          /\ \A r \in RoomNames :
                /\ SameControls(room_states'[r], room_states[r])
                /\ EventFields(room_states'[r].scheduled_events)
                       = EventFields(room_states[r].scheduled_events)
                /\ room_states'[r].time_data = room_states[r].time_data
                /\ room_states'[r].temp_data = room_states[r].temp_data
                /\ room_states'[r].humidity_data = room_states[r].humidity_data]_vars

\* A state loaded from a file that held timed heat under way, an AC boost, a
\* triggered event and recorded history.
C20_Witness ==
    /\ main_thread.op = "restart"
    /\ \E r \in RoomNames :
          /\ room_states[r].timed_heat_active
          /\ room_states[r].timed_heat_remaining_seconds > 0
          /\ Len(room_states[r].time_data) > 0
          /\ \E k \in 1..Len(room_states[r].scheduled_events) :
                room_states[r].scheduled_events[k].triggered
    /\ \E r \in RoomNames : room_states[r].ac_boost_on

(***************************************************************************)
(* Starting from a configuration file, under SpecLoad                      *)
(***************************************************************************)
\* The dashboard has been constructed and no tick has run yet.
JustConstructed == main_thread.op = "dashboard" /\ Len(sim_thread.ticks) = 0

\* What utils.load_config returned to __init__.
Config == load_config(main_thread.written)

\* The entries the file holds for rooms, by room name.
ConfigRoomStates ==
    IF "room_states" \in DOMAIN Config THEN Config.room_states ELSE << >>

HistoryKeys == {"time_data", "temp_data", "humidity_data"}

\* C21: a history list of the file with more than GRAPH_DATA_POINTS (60)
\* entries is loaded as a history of exactly 60 entries, the last 60 of the
\* list in their order.
C21_LongHistoryKeepsLastSixty ==
    JustConstructed =>
        \A r \in RoomNames \cap DOMAIN ConfigRoomStates :
            \A key \in HistoryKeys \cap DOMAIN ConfigRoomStates[r] :
                LET list == ConfigRoomStates[r][key]
                    history == room_states[r][key] IN
                Len(list) > 60 =>
                    /\ Len(history) = 60
                    /\ \A i \in 1..60 :
                           history[i] = load_number(list[Len(list) - 60 + i])

\* A room was loaded from a list of 62 entries: its history begins at the third.
C21_Witness ==
    /\ JustConstructed
    /\ \E r \in RoomNames \cap DOMAIN ConfigRoomStates :
          /\ "temp_data" \in DOMAIN ConfigRoomStates[r]
          /\ Len(ConfigRoomStates[r].temp_data) = 62
          /\ room_states[r].temp_data[1] = 3
          /\ room_states[r].temp_data[60] = 62

\* The state a room has for a key is the value json.load returned for it.
HasFileValue(r, key) ==
    room_states[r][key] = load_json_room_state(ConfigRoomStates[r])[key]

\* The state a room has for a history key is what a sequence of at most 60
\* entries keeps of the list json.load returned: the list, or its last 60.
HasFileHistory(r, key) ==
    LET list == load_json_room_state(ConfigRoomStates[r])[key]
        history == room_states[r][key]
        dropped == IF Len(list) > 60 THEN Len(list) - 60 ELSE 0 IN
    /\ Len(history) = Len(list) - dropped
    /\ \A i \in 1..Len(history) : history[i] = list[dropped + i]

\* Keys the file lacks have the default value; rooms the file lacks are in
\* the default state.
MissingKeysDefault ==
    \A r \in RoomNames :
        IF r \in DOMAIN ConfigRoomStates
        THEN \A key \in DOMAIN get_default_room_state \ DOMAIN ConfigRoomStates[r] :
                 room_states[r][key] = get_default_room_state[key]
        ELSE room_states[r] = get_default_room_state

NoDocument == main_thread.written.status # "ok"

\* config.json holds a document with an empty room list.
EmptyRoomList ==
    /\ main_thread.written.status = "ok"
    /\ "default_rooms" \in DOMAIN Config
    /\ Len(Config.default_rooms) = 0

DefaultRoomSet == rooms = <<"Living Room", "Bedroom", "Kitchen">>

\* The step that constructs the dashboard.
Constructing == main_thread.op = "login" /\ main_thread'.op = "dashboard"

\* C25 as stated: when the file is missing, unreadable or holds an empty room
\* list, the dashboard starts with the rooms Living Room, Bedroom, Kitchen,
\* each in the default state, the first one viewed, and no tick raises.
C25_DefaultsWithoutPriorState ==
    /\ []((main_thread.op = "dashboard" /\ (NoDocument \/ EmptyRoomList)) =>
             /\ sim_thread.pc # "raised"
             /\ JustConstructed =>
                    /\ DefaultRoomSet
                    /\ \A r \in RoomNames : room_states[r] = get_default_room_state)
    /\ [][(Constructing /\ (NoDocument \/ EmptyRoomList))
              => current_room' = "Living Room"]_vars

\* C25, amended: when the file is missing or unreadable the start is as
\* stated; when the file holds an empty room list, the rooms are the default
\* set and the first one is viewed, and every room the file holds no state for
\* is in the default state.
C25_DefaultsWithoutDocument ==
    /\ []((main_thread.op = "dashboard" /\ NoDocument) =>
             /\ sim_thread.pc # "raised"
             /\ JustConstructed =>
                    /\ DefaultRoomSet
                    /\ \A r \in RoomNames : room_states[r] = get_default_room_state)
    /\ []((JustConstructed /\ EmptyRoomList) =>
             /\ DefaultRoomSet
             /\ \A r \in RoomNames \ DOMAIN ConfigRoomStates :
                    room_states[r] = get_default_room_state)
    /\ [][(Constructing /\ (NoDocument \/ EmptyRoomList))
              => current_room' = "Living Room"]_vars

\* Two ticks have run on the default rooms after a start without a readable
\* file.
C25_Witness ==
    /\ main_thread.op = "dashboard"
    /\ main_thread.written.status = "corrupted"
    /\ Len(sim_thread.ticks) = 2
    /\ sim_thread.pc = "sleep"
    /\ rooms = <<"Living Room", "Bedroom", "Kitchen">>

\* A pass of the loop has begun in this step.
PassStep == Len(sim_thread'.ticks) = Len(sim_thread.ticks) + 1

\* C23: a failure while a tick processes one room (an event whose due time
\* cannot be read, or that cannot be executed) stays in that room: the tick
\* processes every other room as usual and the loop goes on to later ticks.
C23_FailureIsolated ==
    [][PassStep =>
          /\ sim_thread'.pc = "sleep"
          /\ \A r \in RoomNames :
                 ~room_raises(room_states[r], now)
                     => room_states'[r]
                            = tick_room(room_states[r], r = current_room, now)]_vars

\* The first room of the list raised in a tick: the thread has ended and the
\* second room has never been processed.
C23_Witness ==
    /\ sim_thread.pc = "raised"
    /\ Len(rooms) >= 2
    /\ room_raises(room_states[rooms[1]], now)
    /\ ~room_raises(room_states[rooms[2]], now)
    /\ room_states[rooms[2]].temp = start_states[rooms[2]].temp

(***************************************************************************)
(* Saves that fail, under SpecSave                                         *)
(***************************************************************************)
\* C24: _save_state_to_config, whether utils.save_config returns False or
\* True, leaves the room list, every room state and the running flag as they
\* were, and after a failed save the tick loop goes on ticking.
C24_SaveLeavesStateAlone ==
    /\ [][main_thread' # main_thread =>
              /\ rooms' = rooms
              /\ room_states' = room_states
              /\ simulation_running' = simulation_running]_vars
    /\ [](simulation_running /\ sim_thread.pc = "sleep")
    /\ []((main_thread.op = "save_failed" /\ TicksDone < MaxTicks) => ENABLED Tick)

\* A tick has run after a save that failed and left the file cut short.
C24_Witness ==
    /\ main_thread.op = "save_failed"
    /\ main_thread.written.status = "corrupted"
    /\ TicksDone > TicksIn(start_states)
    /\ \E r \in RoomNames : room_states[r].heat_on

(***************************************************************************)
(* The clock, under SpecClock                                              *)
(***************************************************************************)
\* The step is a call of the clock operation of this name.
Called(name) ==
    /\ Len(main_thread'.ops) = Len(main_thread.ops) + 1
    /\ main_thread'.ops[Len(main_thread'.ops)] = name

\* C26: the clock starts Stopped; start_simulation called while Running starts
\* no second thread and changes no state; stop_simulation called while Stopped
\* leaves the clock Stopped.
C26_ClockNoOps ==
    /\ ~simulation_running /\ sim_thread = << >>
    /\ [][(Called("start_simulation") /\ simulation_running) =>
              /\ sim_thread' = sim_thread
              /\ simulation_running' = simulation_running
              /\ room_states' = room_states
              /\ rooms' = rooms
              /\ current_room' = current_room]_vars
    /\ [][(Called("stop_simulation") /\ ~simulation_running) =>
              /\ ~simulation_running'
              /\ sim_thread' = sim_thread]_vars

\* start_simulation has been called twice in a row and one thread is ticking.
C26_Witness ==
    /\ Len(main_thread.ops) >= 2
    /\ main_thread.ops[1] = "start_simulation"
    /\ main_thread.ops[2] = "start_simulation"
    /\ sim_thread = <<"sleep">>
    /\ TicksDone > 0

(***************************************************************************)
(* The list of scheduled events, under Spec                                *)
(***************************************************************************)
\* C27: no step removes or reorders an entry of a room's scheduled_events: a
\* new event goes to the end, the entries before it stay where they were, and
\* triggered changes from false to true only.
C27_EventsKeptInOrder ==
    [][\A r \in RoomNames :
          LET old == room_states[r].scheduled_events
              new == room_states'[r].scheduled_events IN
          /\ Len(new) \in {Len(old), Len(old) + 1}
          /\ \A k \in 1..Len(old) :
                 /\ new[k].start_time_iso = old[k].start_time_iso
                 /\ new[k].action = old[k].action
                 /\ new[k].duration_minutes = old[k].duration_minutes
                 /\ old[k].triggered => new[k].triggered]_vars

\* A room holds two events of different durations in the order they were
\* scheduled, both triggered by a tick.
C27_Witness ==
    \E r \in RoomNames :
        LET events == room_states[r].scheduled_events IN
        /\ Len(events) = 2
        /\ events[1].duration_minutes = 1
        /\ events[2].duration_minutes = 2
        /\ events[1].triggered
        /\ events[2].triggered

(***************************************************************************)
(* The control effect of a tick, read off the temperature and the humidity *)
(***************************************************************************)

\* The ambient drift of a value towards its target at a rate.
AmbientDrift(value, target, rate) ==
    IF value < target THEN drift(rate, target - value)
    ELSE -drift(rate, value - target)

\* The step is a tick in which room r's temperature and humidity changed by
\* the control effects direct_temp and direct_humidity, next to the ambient
\* drift and, in the viewed room, a fluctuation within its range.
HasEffect(r, direct_temp, direct_humidity) ==
    LET rs == room_states[r]
        viewed == r = current_room
        rate_temp == IF viewed THEN AMBIENT_DRIFT_RATE_TEMP
                     ELSE BACKGROUND_AMBIENT_DRIFT_RATE_TEMP
        rate_humidity == IF viewed THEN AMBIENT_DRIFT_RATE_HUMIDITY
                         ELSE BACKGROUND_AMBIENT_DRIFT_RATE_HUMIDITY IN
    /\ \E noise \in (IF viewed THEN -TEMP_NOISE..TEMP_NOISE ELSE {0}) :
          room_states'[r].temp =
              rs.temp + direct_temp
                  + AmbientDrift(rs.temp, AMBIENT_TEMP_TARGET, rate_temp) + noise
    /\ \E noise \in (IF viewed THEN -HUMIDITY_NOISE..HUMIDITY_NOISE ELSE {0}) :
          room_states'[r].humidity =
              rs.humidity + direct_humidity
                  + AmbientDrift(rs.humidity, AMBIENT_HUMIDITY_TARGET,
                                 rate_humidity) + noise

\* C28: within one tick a room's due events are applied first, then the
\* timers run, then temperature and humidity are updated, then the history is
\* written.  So a timed heat that a due event starts in an idle room is
\* already counted down once and already heats in that tick; a timed heat or
\* an AC boost whose timer runs out in a tick has no control effect in that
\* tick; and the viewed room's history ends with the updated values.
C28_TickOrder ==
    [][TickStep =>
          \A r \in RoomNames :
              LET rs == room_states[r]
                  after == room_states'[r]
                  due == DueEvents(rs, now) IN
              /\ (NoModeActive(rs) /\ due # {}) =>
                     /\ after.timed_heat_active /\ after.heat_on
                     /\ \E k \in due :
                            after.timed_heat_remaining_seconds =
                                rs.scheduled_events[k].duration_minutes * 60 - 1
                     /\ \A k \in due : after.scheduled_events[k].triggered
                     /\ HasEffect(r, HEAT_RATE, 0)
              /\ (rs.timed_heat_active /\ rs.timed_heat_remaining_seconds = 1
                      /\ ~rs.ac_boost_on) =>
                     /\ ~after.timed_heat_active /\ ~after.heat_on
                     /\ HasEffect(r, 0, 0)
              /\ (rs.ac_boost_on /\ rs.ac_boost_timer = 1
                      /\ ~rs.timed_heat_active) =>
                     /\ ~after.ac_boost_on /\ ~after.heat_on
                     /\ HasEffect(r, 0, 0)
              /\ r = current_room =>
                     /\ after.temp_data[Len(after.temp_data)] = after.temp
                     /\ after.humidity_data[Len(after.humidity_data)]
                            = after.humidity]_vars

\* C28 witness: after one tick, one room is in a timed heat that its event
\* started in that tick and is warmer by the heating already, and the other
\* room's mode has ended in a tick with the ambient drift alone.
C28_Witness ==
    /\ TicksDone = 1
    /\ \E r \in RoomNames :
          /\ r # current_room
          /\ room_states[r].timed_heat_active
          /\ Len(room_states[r].scheduled_events) = 1
          /\ room_states[r].scheduled_events[1].executions = 1
          /\ room_states[r].timed_heat_remaining_seconds =
                 room_states[r].scheduled_events[1].duration_minutes * 60 - 1
          /\ room_states[r].temp =
                 INITIAL_TEMP_CELSIUS + HEAT_RATE
                     + drift(BACKGROUND_AMBIENT_DRIFT_RATE_TEMP,
                             AMBIENT_TEMP_TARGET - INITIAL_TEMP_CELSIUS)
    /\ \E r \in RoomNames :
          /\ r = current_room
          /\ start_states[r].ac_boost_on /\ start_states[r].ac_boost_timer = 1
          /\ ~room_states[r].ac_boost_on
          /\ room_states[r].temp >= INITIAL_TEMP_CELSIUS

\* C30: the control effect of a tick on a room is +HEAT_RATE on the
\* temperature and nothing on the humidity when heat_on is set once the
\* timers have run, -COOL_RATE_AC and -AC_HUMIDITY_REDUCTION_RATE when
\* ac_boost_on is set and heat_on is not, and nothing otherwise; a tick never
\* both heats and cools a room.
C30_ControlEffect ==
    [][TickStep =>
          \A r \in RoomNames :
              LET after == room_states'[r] IN
              /\ after.heat_on => HasEffect(r, HEAT_RATE, 0)
              /\ (after.ac_boost_on /\ ~after.heat_on) =>
                     HasEffect(r, -COOL_RATE_AC, -AC_HUMIDITY_REDUCTION_RATE)
              /\ (~after.ac_boost_on /\ ~after.heat_on) => HasEffect(r, 0, 0)
              /\ ~HasEffect(r, HEAT_RATE - COOL_RATE_AC,
                            -AC_HUMIDITY_REDUCTION_RATE)
              /\ ~HasEffect(r, HEAT_RATE - COOL_RATE_AC, 0)]_vars

\* C30 witness: after one tick, a room with a timed heat and an AC boost both
\* set has been heated and its humidity has only drifted, and the other room
\* has been cooled and dried by its AC boost.
C30_Witness ==
    /\ TicksDone = 1
    /\ \E r \in RoomNames :
          /\ r # current_room
          /\ room_states[r].heat_on /\ room_states[r].ac_boost_on
          /\ room_states[r].temp =
                 INITIAL_TEMP_CELSIUS + HEAT_RATE
                     + drift(BACKGROUND_AMBIENT_DRIFT_RATE_TEMP,
                             AMBIENT_TEMP_TARGET - INITIAL_TEMP_CELSIUS)
          /\ room_states[r].humidity =
                 INITIAL_HUMIDITY_PERCENT
                     - drift(BACKGROUND_AMBIENT_DRIFT_RATE_HUMIDITY,
                             INITIAL_HUMIDITY_PERCENT - AMBIENT_HUMIDITY_TARGET)
    /\ \E r \in RoomNames :
          /\ r = current_room
          /\ room_states[r].ac_boost_on /\ ~room_states[r].heat_on
          /\ room_states[r].temp < INITIAL_TEMP_CELSIUS - COOL_RATE_AC + TEMP_NOISE + 100
          /\ room_states[r].humidity < INITIAL_HUMIDITY_PERCENT - HUMIDITY_NOISE

(***************************************************************************)
(* The background drift of a room that is not viewed                       *)
(***************************************************************************)

BackgroundStep == Len(sim_thread'.ticks) = Len(sim_thread.ticks) + 1

BackgroundRooms == RoomNames \ {current_room}

\* Distances from the target before and after; after is on the same side as
\* before, or at the target.
NotPast(before, after) == before * after >= 0

\* The change rate * distance * 0.15 is at least half a float spacing.
HalfSpacingOrMore(k, rate) == 2 * rate * DRIFT_FACTOR * abs(k) >= 1000 * 1000

\* A value within MaxSpacings spacings of a target between the clamp bounds
\* is between the clamp bounds.
InsideBounds(k, lo, hi, target) ==
    lo < target /\ target < hi /\ abs(k) <= MaxSpacings

\* C29 as stated: a tick moves the temperature of an idle room that is not
\* viewed strictly closer to 22.0 and its humidity strictly closer to 45.0,
\* not past the target, leaves a value at the target unchanged, and keeps
\* both inside the clamp bounds.
C29_BackgroundStrictlyCloser ==
    [][BackgroundStep =>
          \A r \in BackgroundRooms :
              LET rs == room_states[r]
                  after == room_states'[r] IN
              /\ rs.temp # 0 =>
                     abs(after.temp) < abs(rs.temp) /\ NotPast(rs.temp, after.temp)
              /\ rs.humidity # 0 =>
                     /\ abs(after.humidity) < abs(rs.humidity)
                     /\ NotPast(rs.humidity, after.humidity)
              /\ rs.temp = 0 => after.temp = 0
              /\ rs.humidity = 0 => after.humidity = 0
              /\ InsideBounds(after.temp, TEMP_MIN, TEMP_MAX, AMBIENT_TEMP_TARGET)
              /\ InsideBounds(after.humidity, HUMIDITY_MIN, HUMIDITY_MAX,
                              AMBIENT_HUMIDITY_TARGET)]_vars

\* C29, amended: a tick never moves the temperature of an idle room that is
\* not viewed farther from 22.0 nor its humidity farther from 45.0, and never
\* past the target; it moves a value strictly closer when the change
\* rate * distance * 0.15 is at least half the spacing of floats at the value,
\* and leaves it unchanged otherwise, the target included; both stay inside
\* the clamp bounds.
C29_BackgroundNeverFarther ==
    [][BackgroundStep =>
          \A r \in BackgroundRooms :
              LET rs == room_states[r]
                  after == room_states'[r] IN
              /\ abs(after.temp) <= abs(rs.temp) /\ NotPast(rs.temp, after.temp)
              /\ abs(after.humidity) <= abs(rs.humidity)
              /\ NotPast(rs.humidity, after.humidity)
              /\ IF HalfSpacingOrMore(rs.temp, BACKGROUND_AMBIENT_DRIFT_RATE_TEMP)
                 THEN abs(after.temp) < abs(rs.temp)
                 ELSE after.temp = rs.temp
              /\ IF HalfSpacingOrMore(rs.humidity,
                                      BACKGROUND_AMBIENT_DRIFT_RATE_HUMIDITY)
                 THEN abs(after.humidity) < abs(rs.humidity)
                 ELSE after.humidity = rs.humidity
              /\ InsideBounds(after.temp, TEMP_MIN, TEMP_MAX, AMBIENT_TEMP_TARGET)
              /\ InsideBounds(after.humidity, HUMIDITY_MIN, HUMIDITY_MAX,
                              AMBIENT_HUMIDITY_TARGET)]_vars

\* C29 witness: after one tick a room that is not viewed has come one spacing
\* closer to 22.0 from MaxSpacings below, and its humidity, closer to 45.0
\* than half a spacing's worth of change, is where it was.
C29_Witness ==
    /\ Len(sim_thread.ticks) = 1
    /\ \E r \in BackgroundRooms :
          /\ NoModeActive(room_states[r])
          /\ start_states[r].temp = -MaxSpacings
          /\ room_states[r].temp = 1 - MaxSpacings
          /\ start_states[r].humidity > 0
          /\ ~HalfSpacingOrMore(start_states[r].humidity,
                                BACKGROUND_AMBIENT_DRIFT_RATE_HUMIDITY)
          /\ room_states[r].humidity = start_states[r].humidity

(***************************************************************************)
(* Rooms added and rooms selected                                          *)
(***************************************************************************)

\* The last handler was add_new_room_prompt and it accepted the typed name.
RoomAdded == main_thread.op = "added"

AddedName == strip(main_thread.typed)

\* C31: after add_new_room_prompt has accepted a name, the room list ends
\* with the name, the room has the default state, and the room is the viewed
\* one, whatever the room list was.
C31_AddedRoomIsViewed ==
    RoomAdded =>
        /\ rooms = Append(main_thread.before, AddedName)
        /\ AddedName \in DOMAIN room_states
        /\ room_states[AddedName] = get_default_room_state
        /\ current_room = AddedName

\* C31 witness: "Bed" has been added to the fallback rooms; it is the last
\* room of the list, in the default state, and the viewed room is "Bedroom".
C31_Witness ==
    /\ RoomAdded
    /\ main_thread.before = DEFAULT_ROOMS_FALLBACK_TEXT
    /\ AddedName = BedText
    /\ rooms = Append(DEFAULT_ROOMS_FALLBACK_TEXT, BedText)
    /\ room_states[BedText] = get_default_room_state
    /\ current_room = BedroomText

\* C38: after any additions and selections of rooms, the room list has no
\* name twice, room_states has a state for exactly the names of the list, and
\* current_room is one of them.
C38_RoomListConsistent ==
    /\ \A i, k \in 1..Len(rooms) : rooms[i] = rooms[k] => i = k
    /\ DOMAIN room_states = RoomNames
    /\ current_room \in RoomNames

\* C38 witness: the dashboard started with the rooms "Den (old)" and
\* "Bedroom" of its configuration file; the user has picked "Den (old)" in the
\* combobox, the handler has ended in a KeyError, and current_room is "Den",
\* which is no room of the list.
C38_Witness ==
    /\ main_thread.op = "selected"
    /\ main_thread.typed = DenOldText
    /\ main_thread.raised
    /\ rooms = <<DenOldText, BedroomText>>
    /\ current_room = DenText
    /\ DenText \notin DOMAIN room_states

(***************************************************************************)
(* The login screen                                                        *)
(***************************************************************************)

AttemptStep ==
    main_thread.screen = "login" /\ main_thread'.last.name = "attempt_login"

\* The password entered in the step is not empty and its hash is not the
\* stored one.
WrongPassword ==
    /\ main_thread.password_hash # NoHash
    /\ main_thread'.last.entered # ""
    /\ main_thread.password_hash # hash_password(main_thread'.last.entered)

\* C32: the application goes from the login screen to the dashboard, with
\* the callback called and the simulation started, only in an attempt_login
\* whose password hashes to the stored hash; the simulation runs on no other
\* screen, and no other handler calls the callback.
C32_DashboardOnlyAfterVerification ==
    /\ [][(main_thread.screen # "dashboard" /\ main_thread'.screen = "dashboard")
            => /\ AttemptStep
               /\ main_thread.password_hash # NoHash
               /\ main_thread.password_hash =
                      hash_password(main_thread'.last.entered)
               /\ main_thread'.last.called
               /\ simulation_running']_vars
    /\ [](main_thread.last.called =>
              /\ main_thread.last.name = "attempt_login"
              /\ main_thread.last.verified)
    /\ [](simulation_running => main_thread.screen = "dashboard")

\* C32 witness: the dashboard is up with the fallback rooms and the
\* simulation runs after "secret2" was entered, the password whose hash is
\* stored, one wrong password having been entered before it.
C32_Witness ==
    /\ main_thread.screen = "dashboard"
    /\ simulation_running
    /\ main_thread.last.entered = "secret2"
    /\ main_thread.password_hash = hash_password("secret2")
    /\ main_thread.last.attempts_before = 1
    /\ rooms = DEFAULT_ROOMS_FALLBACK

\* C33: attempts_left is MAX_LOGIN_ATTEMPTS on a new login screen; an
\* attempt_login with a wrong password that is not empty takes one off and
\* every other attempt_login leaves it; the application quits in the attempt
\* that is the second wrong one, and only then; attempts_left is never
\* negative, and positive while the login screen is up.
C33_AttemptsCountDown ==
    /\ [](main_thread.last.name \in {"init", "logout"} =>
              main_thread.attempts_left = MAX_LOGIN_ATTEMPTS)
    /\ [][AttemptStep =>
            /\ main_thread'.attempts_left =
                   IF WrongPassword THEN main_thread.attempts_left - 1
                   ELSE main_thread.attempts_left
            /\ main_thread'.screen = "quit" <=>
                   (WrongPassword /\ main_thread.attempts_left
                                        = MAX_LOGIN_ATTEMPTS - 1)]_vars
    /\ [](main_thread.attempts_left >= 0)
    /\ [](main_thread.screen = "login" => main_thread.attempts_left > 0)
    /\ [](main_thread.screen = "quit" <=> main_thread.attempts_left = 0)

\* C33 witness: the application has quit in an attempt_login with a wrong
\* password, found one attempt left and left none.
C33_Witness ==
    /\ main_thread.screen = "quit"
    /\ main_thread.last.name = "attempt_login"
    /\ main_thread.last.entered = "secret2"
    /\ main_thread.password_hash = hash_password("secret1")
    /\ main_thread.last.attempts_before = 1
    /\ main_thread.attempts_left = 0

(***************************************************************************)
(* The tick threads of one dashboard                                       *)
(***************************************************************************)

\* The threads that have not left _simulation_loop.
ThreadsInLoop == {i \in 1..Len(sim_thread) : sim_thread[i] = "sleep"}

\* C34: whatever calls of start_simulation and stop_simulation a dashboard
\* has seen, at most one thread is in the simulation loop, so that a room's
\* timers are counted down once per tick interval.
C34_AtMostOneTickThread == Cardinality(ThreadsInLoop) <= 1

\* C34 witness: after start_simulation, stop_simulation and start_simulation
\* the flag is set and two threads are in the loop, the first never having
\* seen the flag cleared; each of them makes a pass per tick interval.
C34_Witness ==
    /\ main_thread.ops =
           <<"start_simulation", "stop_simulation", "start_simulation">>
    /\ simulation_running
    /\ ThreadsInLoop = {1, 2}
    /\ ENABLED ThreadPass

\* C35: once stop_simulation has cleared the flag, and start_simulation is
\* not called again, the thread begins no further iteration, and it leaves
\* the loop and ends, from the iteration in progress at the latest.
C35_ThreadEndsAfterStop ==
    /\ [][~simulation_running => sim_thread'.ticks = sim_thread.ticks]_vars
    /\ (~simulation_running) ~> (sim_thread.pc = "ended")
    /\ [](sim_thread.pc = "ended" => ~simulation_running)

\* C35 witness: destroy has stopped the simulation and the thread has ended,
\* two iterations begun and both completed in every room.
C35_Witness ==
    /\ sim_thread.pc = "ended"
    /\ ~simulation_running
    /\ main_thread.op = "destroy"
    /\ Len(sim_thread.ticks) = 2
    /\ \A r \in RoomNames : room_states[r].temp = 2 /\ room_states[r].humidity = 2

(***************************************************************************)
(* Scheduled events that are due                                           *)
(***************************************************************************)

\* Event k of room r is untriggered and its due time has passed.
DuePendingEvent(r, k) ==
    LET event == room_states[r].scheduled_events[k] IN
    /\ ~event.triggered
    /\ ~unreadable_time(event.start_time_iso)
    /\ now >= fromisoformat(event.start_time_iso)

DuePending ==
    \E r \in RoomNames :
        \E k \in 1..Len(room_states[r].scheduled_events) : DuePendingEvent(r, k)

\* C36: while the simulation is running, a tick that completes marks every
\* event of every room that was untriggered and due as triggered, and so
\* events that are due do not stay untriggered.
C36_DueEventsTriggered ==
    /\ [][(PassStep /\ sim_thread'.pc = "sleep") =>
             \A r \in RoomNames :
                 \A k \in 1..Len(room_states[r].scheduled_events) :
                     DuePendingEvent(r, k) =>
                         room_states'[r].scheduled_events[k].triggered]_vars
    /\ (simulation_running /\ DuePending) ~> ~DuePending

\* C36 witness: the simulation is flagged as running, the thread has ended in
\* an exception, and an event of a room is due and untriggered for good.
C36_Witness ==
    /\ simulation_running
    /\ sim_thread.pc = "raised"
    /\ DuePending

(***************************************************************************)
(* The modes at the end of a tick                                          *)
(***************************************************************************)

\* C37: at the end of every tick, in every room, timed_heat_active implies
\* heat_on, and heat_on and ac_boost_on are not both set without
\* timed_heat_active: the tick sets heat_on for a running timed heat and
\* clears manual heat that it finds together with an AC boost.
C37_ModesAfterTick ==
    [][TickStep =>
          \A r \in RoomNames :
              LET after == room_states'[r] IN
              /\ after.timed_heat_active => after.heat_on
              /\ ~(after.heat_on /\ after.ac_boost_on
                       /\ ~after.timed_heat_active)]_vars

\* C37 witness: after the first tick, a room that started with manual heat
\* and an AC boost both set has the AC boost alone, and the other room, which
\* started in a timed heat with heat_on cleared, has heat_on set.
C37_Witness ==
    /\ TicksDone = 1
    /\ \E r \in RoomNames :
          /\ start_states[r].heat_on /\ start_states[r].ac_boost_on
          /\ ~start_states[r].timed_heat_active
          /\ ~room_states[r].heat_on /\ room_states[r].ac_boost_on
    /\ \E r \in RoomNames :
          /\ start_states[r].timed_heat_active /\ ~start_states[r].heat_on
          /\ room_states[r].timed_heat_active /\ room_states[r].heat_on

(***************************************************************************)
(* The three histories of a room                                           *)
(***************************************************************************)

\* C39: between ticks, in every room that started from the default state,
\* time_data, temp_data and humidity_data have the same length, and each
\* entry of time_data is the entry before it plus one tick interval, so
\* time_data is strictly increasing.
C39_HistoriesAligned ==
    \A r \in RoomNames :
        start_states[r] = get_default_room_state =>
            LET rs == room_states[r] IN
            /\ Len(rs.temp_data) = Len(rs.time_data)
            /\ Len(rs.humidity_data) = Len(rs.time_data)
            /\ \A i \in 1..(Len(rs.time_data) - 1) :
                  /\ rs.time_data[i + 1] > rs.time_data[i]
                  /\ rs.time_data[i + 1]
                         = rs.time_data[i] + SIMULATION_TICK_INTERVAL_SECONDS

\* C39 witness: one room, from the default state, holds a full history whose
\* oldest entries have been dropped, and another one the single entry of the
\* one tick during which it was viewed.
C39_Witness ==
    \E r, q \in RoomNames :
        /\ start_states[r] = get_default_room_state
        /\ start_states[q] = get_default_room_state
        /\ Len(room_states[r].time_data) = GRAPH_DATA_POINTS
        /\ room_states[r].time_data[1] > SIMULATION_TICK_INTERVAL_SECONDS
        /\ Len(room_states[q].time_data) = 1
        /\ Len(room_states[q].humidity_data) = 1

(***************************************************************************)
(* The buttons and the operations behind them                              *)
(***************************************************************************)
ViewedState == room_states[current_room]

ModeInvariants(rs) ==
    /\ rs.timed_heat_active => rs.heat_on
    /\ ~(rs.heat_on /\ rs.ac_boost_on /\ ~rs.timed_heat_active)

ButtonEnabled(button) == main_thread.buttons[button] = NORMAL

StartsTimedHeat ==
    /\ ButtonEnabled("timed_heat_button")
    /\ main_thread.buttons.timed_heat_text = "Timed Heat"

CancelsTimedHeat ==
    /\ ButtonEnabled("timed_heat_button")
    /\ main_thread.buttons.timed_heat_text = "Cancel Timed Heat"

ScheduleWouldSucceed ==
    \E delay \in Delays, d \in Durations :
        schedule_event(ViewedState, now, delay, d) # ViewedState

\* Heat ON, Heat OFF, Boost AC and Timed Heat are enabled exactly when their
\* handler would change the viewed room's state, and each in the mode named.
ModeButtonsMatchHandlers ==
    /\ ButtonEnabled("heat_on_button")
           <=> toggle_heat_on(ViewedState) # ViewedState
    /\ ButtonEnabled("heat_off_button")
           <=> toggle_heat_off(ViewedState) # ViewedState
    /\ ButtonEnabled("ac_boost_button")
           <=> activate_ac_boost(ViewedState) # ViewedState
    /\ ButtonEnabled("timed_heat_button")
           <=> \E d \in Durations :
                   toggle_timed_heat(ViewedState, d) # ViewedState
    /\ ButtonEnabled("heat_on_button") => NoModeActive(ViewedState)
    /\ ButtonEnabled("ac_boost_button") => NoModeActive(ViewedState)
    /\ StartsTimedHeat => NoModeActive(ViewedState)
    /\ ButtonEnabled("heat_off_button")
           => ViewedState.heat_on /\ ~ViewedState.timed_heat_active
    /\ CancelsTimedHeat => ViewedState.timed_heat_active

\* C40 as stated: for every room state that satisfies the mode invariants,
\* the enabled buttons are exactly the operations that would change the
\* state, Schedule included: no disabled button stands for an operation that
\* would succeed.  It fails for Schedule, which is disabled in every mode
\* while schedule_event_prompt tests no mode.
C40_EnabledExactlyWhenEffective ==
    ModeInvariants(ViewedState) =>
        /\ ModeButtonsMatchHandlers
        /\ ButtonEnabled("schedule_event_button") => NoModeActive(ViewedState)
        /\ ButtonEnabled("schedule_event_button") <=> ScheduleWouldSucceed

\* C40 amended: for every room state that satisfies the mode invariants,
\* Heat ON, Heat OFF, Boost AC and Timed Heat are enabled exactly when their
\* handler would change the state, each in the mode named; Schedule is
\* enabled exactly when no mode is active, although scheduling would add
\* its event in any mode.
C40_ModeButtonsExactSchedulePerMode ==
    ModeInvariants(ViewedState) =>
        /\ ModeButtonsMatchHandlers
        /\ ButtonEnabled("schedule_event_button") <=> NoModeActive(ViewedState)
        /\ ScheduleWouldSucceed

\* C40 witness: Heat ON was pressed in a room with no mode active; now Heat
\* OFF is the one enabled button, and Schedule is disabled.
C40_Witness ==
    /\ main_thread.pressed = "Heat ON"
    /\ ModeInvariants(ViewedState)
    /\ ViewedState.heat_on /\ ~ViewedState.timed_heat_active
    /\ ButtonEnabled("heat_off_button")
    /\ ~ButtonEnabled("heat_on_button")
    /\ ~ButtonEnabled("ac_boost_button")
    /\ ~ButtonEnabled("timed_heat_button")
    /\ ~ButtonEnabled("schedule_event_button")

====
